---- MODULE Spec2Model ----
(***************************************************************************)
(* Model of the msgpack-converter position mapper, decoder and selection   *)
(* resolver (src/src_rust/position_mapper.rs) and of the conversions they  *)
(* are composed with (src/src_rust/converter.rs).                          *)
(*                                                                         *)
(* Bytes are integers 0..255, a buffer is a sequence of bytes.  A text is  *)
(* a sequence of Unicode code points, so that the difference between a     *)
(* character offset and a UTF-8 byte length is visible.  Positions are     *)
(* 0-based as in the source: data[pos] of the source is data[pos + 1].     *)
(***************************************************************************)
EXTENDS Integers, Sequences, FiniteSets, TLC

(***************************************************************************)
(* Characters                                                              *)
(***************************************************************************)
Ch ==
    [ quote |-> 34, backslash |-> 92, lbrace |-> 123, rbrace |-> 125,
      lbracket |-> 91, rbracket |-> 93, comma |-> 44, colon |-> 58,
      space |-> 32, newline |-> 10, minus |-> 45, dot |-> 46, zero |-> 48,
      replacement |-> 65533 ]

Lit ==
    [ null  |-> <<110, 117, 108, 108>>,
      true  |-> <<116, 114, 117, 101>>,
      false |-> <<102, 97, 108, 115, 101>>,
      nan   |-> <<78, 97, 78>>,
      inf   |-> <<105, 110, 102>> ]

\* char::is_whitespace: the Unicode White_Space property
is_whitespace(c) ==
    \/ c \in 9..13
    \/ c \in {32, 133, 160, 5760, 8232, 8233, 8239, 8287, 12288}
    \/ c \in 8192..8202

\* data.get(i) on a 0-based position
At(s, i) == s[i + 1]

\* s[from..to) with 0-based half-open bounds, both within the sequence
Slice(s, from, to) == SubSeq(s, from + 1, to)

Min2(a, b) == IF a <= b THEN a ELSE b
RECURSIVE Pow(_, _)
Pow(b, e) == IF e = 0 THEN 1 ELSE b * Pow(b, e - 1)

RECURSIVE Concat(_)
Concat(ss) == IF ss = <<>> THEN <<>> ELSE Head(ss) \o Concat(Tail(ss))

(***************************************************************************)
(* Integer formatting: to_string() of the integer types                    *)
(***************************************************************************)
RECURSIVE NatDigits(_)
NatDigits(n) ==
    IF n < 10 THEN <<Ch.zero + n>>
    ELSE Append(NatDigits(n \div 10), Ch.zero + (n % 10))

IntToString(n) == IF n < 0 THEN <<Ch.minus>> \o NatDigits(-n) ELSE NatDigits(n)

\* big-endian unsigned value of a byte sequence (uN::from_be_bytes)
RECURSIVE from_be_bytes(_)
from_be_bytes(bs) ==
    IF bs = <<>> THEN 0
    ELSE from_be_bytes(SubSeq(bs, 1, Len(bs) - 1)) * 256 + bs[Len(bs)]

(***************************************************************************)
(* UTF-8: String::from_utf8_lossy and str::len                             *)
(***************************************************************************)
IsCont(b) == b \in 128..191

\* number of bytes of the UTF-8 encoding of a code point
Utf8Len(c) == IF c < 128 THEN 1 ELSE IF c < 2048 THEN 2 ELSE IF c < 65536 THEN 3 ELSE 4

\* One decoding step at 1-based index i of bs: <<code point, bytes consumed>>.
\* An ill-formed sequence yields U+FFFD for its maximal valid prefix.
Utf8Step(bs, i) ==
    LET n  == Len(bs)
        b0 == bs[i]
        has(k) == i + k <= n
        lo2 == IF b0 = 224 THEN 160 ELSE IF b0 = 240 THEN 144 ELSE 128
        hi2 == IF b0 = 237 THEN 159 ELSE IF b0 = 244 THEN 143 ELSE 191
        ok2 == has(1) /\ bs[i + 1] \in lo2..hi2
        ok3 == has(2) /\ IsCont(bs[i + 2])
        ok4 == has(3) /\ IsCont(bs[i + 3])
        bad(k) == <<Ch.replacement, k>>
    IN  IF b0 < 128 THEN <<b0, 1>>
        ELSE IF b0 \in 194..223 THEN
            IF ok2 THEN <<(b0 - 192) * 64 + (bs[i + 1] - 128), 2>> ELSE bad(1)
        ELSE IF b0 \in 224..239 THEN
            IF ~ok2 THEN bad(1)
            ELSE IF ~ok3 THEN bad(2)
            ELSE <<(b0 - 224) * 4096 + (bs[i + 1] - 128) * 64 + (bs[i + 2] - 128), 3>>
        ELSE IF b0 \in 240..244 THEN
            IF ~ok2 THEN bad(1)
            ELSE IF ~ok3 THEN bad(2)
            ELSE IF ~ok4 THEN bad(3)
            ELSE <<(b0 - 240) * 262144 + (bs[i + 1] - 128) * 4096
                     + (bs[i + 2] - 128) * 64 + (bs[i + 3] - 128), 4>>
        ELSE bad(1)

RECURSIVE Utf8From(_, _)
Utf8From(bs, i) ==
    IF i > Len(bs) THEN <<>>
    ELSE LET st == Utf8Step(bs, i) IN <<st[1]>> \o Utf8From(bs, i + st[2])

\* String::from_utf8_lossy(bytes).to_string(), as a sequence of code points
from_utf8_lossy(bs) == Utf8From(bs, 1)

(***************************************************************************)
(* JSON string literal: serde_json::to_string(&str)                        *)
(***************************************************************************)
HexDigitLower(n) == IF n < 10 THEN 48 + n ELSE 97 + (n - 10)

\* the characters serde_json writes for one character of a string
EscapeChar(c) ==
    IF c = Ch.quote THEN <<Ch.backslash, Ch.quote>>
    ELSE IF c = Ch.backslash THEN <<Ch.backslash, Ch.backslash>>
    ELSE IF c = 8 THEN <<Ch.backslash, 98>>
    ELSE IF c = 12 THEN <<Ch.backslash, 102>>
    ELSE IF c = 10 THEN <<Ch.backslash, 110>>
    ELSE IF c = 13 THEN <<Ch.backslash, 114>>
    ELSE IF c = 9 THEN <<Ch.backslash, 116>>
    ELSE IF c < 32 THEN
        <<Ch.backslash, 117, Ch.zero, Ch.zero, HexDigitLower(c \div 16), HexDigitLower(c % 16)>>
    ELSE <<c>>

RECURSIVE EscapeChars(_)
EscapeChars(s) == IF s = <<>> THEN <<>> ELSE EscapeChar(Head(s)) \o EscapeChars(Tail(s))

\* the quoted, escaped literal of a string
JsonStringLiteral(s) == <<Ch.quote>> \o EscapeChars(s) \o <<Ch.quote>>

\* str::len(): the length in UTF-8 bytes of a text
RECURSIVE StrLen(_)
StrLen(s) == IF s = <<>> THEN 0 ELSE Utf8Len(Head(s)) + StrLen(Tail(s))

(***************************************************************************)
(* Unbounded decimal arithmetic.  A natural number is its sequence of      *)
(* decimal digits 0..9, most significant first; <<>> is zero while it is   *)
(* being computed.  The 64-bit integers of the source are kept exactly.    *)
(***************************************************************************)
RECURSIVE DecMulAdd(_, _, _)
\* d * k + c
DecMulAdd(d, k, c) ==
    IF d = <<>> THEN (IF c = 0 THEN <<>> ELSE DecMulAdd(<<>>, k, c \div 10) \o <<c % 10>>)
    ELSE LET t == d[Len(d)] * k + c
         IN  Append(DecMulAdd(SubSeq(d, 1, Len(d) - 1), k, t \div 10), t % 10)

RECURSIVE DecOfBytesRaw(_)
DecOfBytesRaw(bs) ==
    IF bs = <<>> THEN <<>>
    ELSE DecMulAdd(DecOfBytesRaw(SubSeq(bs, 1, Len(bs) - 1)), 256, bs[Len(bs)])

DecNorm(d) == IF d = <<>> THEN <<0>> ELSE d

\* digits of the big-endian unsigned value of bs
DecOfBytes(bs) == DecNorm(DecOfBytesRaw(bs))

\* digits of 2^w - u, the magnitude of a negative two's complement value
DecOfNegBytes(bs) == DecNorm(DecMulAdd(DecOfBytesRaw([i \in 1..Len(bs) |-> 255 - bs[i]]), 1, 1))

DigitChars(d) == [i \in 1..Len(d) |-> Ch.zero + d[i]]

(***************************************************************************)
(* serde_json::Value                                                       *)
(***************************************************************************)
Null == [t |-> "null"]
Bool(b) == [t |-> "bool", b |-> b]
\* Number holding an integer: sign and decimal digits of the magnitude
Number(neg, digits) == [t |-> "int", neg |-> neg, digits |-> digits]
\* Number holding a finite float, kept as its IEEE754 big-endian bytes
Float(bs) == [t |-> "float", bits |-> bs]
String(s) == [t |-> "str", s |-> s]
Array(a) == [t |-> "arr", a |-> a]
Object(o) == [t |-> "obj", o |-> o]

\* u8/u16/u32/u64 .into()
UnsignedNumber(bs) == Number(FALSE, DecOfBytes(bs))

\* i8/i16/i32/i64 .into() of the two's complement big-endian bytes
SignedNumber(bs) ==
    IF bs[1] >= 128 THEN Number(TRUE, DecOfNegBytes(bs)) ELSE Number(FALSE, DecOfBytes(bs))

NumberToString(v) == (IF v.neg THEN <<Ch.minus>> ELSE <<>>) \o DigitChars(v.digits)

\* serde_json::Map::insert: an existing key keeps its place and takes the
\* new value, a new key goes last (insertion order, spec section 3)
MapInsert(o, k, v) ==
    IF \E i \in 1..Len(o) : o[i].k = k
    THEN [i \in 1..Len(o) |-> IF o[i].k = k THEN [k |-> k, v |-> v] ELSE o[i]]
    ELSE Append(o, [k |-> k, v |-> v])

(***************************************************************************)
(* IEEE754 floats.  A float is kept as its big-endian bytes (4 or 8) and   *)
(* evaluated exactly: value = (-1)^neg * mant * 2^E with mant a bit        *)
(* sequence.  The decimal renderings below are the exact decimal expansion *)
(* of the value, which is what the shortest-round-trip printers emit for   *)
(* every value whose expansion has at most 15 significant digits; the      *)
(* float payloads the model draws (FloatPayloads) are of that kind.        *)
(***************************************************************************)
ByteBits(b) == [i \in 1..8 |-> (b \div Pow(2, 8 - i)) % 2]

RECURSIVE AllBits(_)
AllBits(bs) == IF bs = <<>> THEN <<>> ELSE ByteBits(Head(bs)) \o AllBits(Tail(bs))

RECURSIVE BitsValue(_)
BitsValue(bits) ==
    IF bits = <<>> THEN 0
    ELSE 2 * BitsValue(SubSeq(bits, 1, Len(bits) - 1)) + bits[Len(bits)]

\* the bits in groups of eight, padded with zero bits in front
BitPad(bits) == (8 - (Len(bits) % 8)) % 8

BitsToBytes(bits) ==
    [i \in 1..((Len(bits) + 7) \div 8) |->
        BitsValue([j \in 1..8 |->
            IF (8 * i) - 8 + j > BitPad(bits) THEN bits[(8 * i) - 8 + j - BitPad(bits)] ELSE 0])]

\* decimal digits of a bit sequence, <<>> for zero
DecOfBitsRaw(bits) == DecOfBytesRaw(BitsToBytes(bits))

RECURSIVE StripLeadingZeros(_)
StripLeadingZeros(bits) ==
    IF bits # <<>> /\ Head(bits) = 0 THEN StripLeadingZeros(Tail(bits)) ELSE bits

Zeros(n) == [i \in 1..n |-> 0]

\* sign, exponent field and mantissa of the bits of an IEEE 754 value with
\* an exponent field of ebits bits: the value is mant * 2^E
FloatPartsOf(bits, ebits, bias, expo) ==
    [ neg  |-> bits[1] = 1,
      nonfinite |-> expo = Pow(2, ebits) - 1,
      nan  |-> expo = Pow(2, ebits) - 1 /\ (\E i \in 2 + ebits..Len(bits) : bits[i] = 1),
      mant |-> (IF expo = 0 THEN <<0>> ELSE <<1>>) \o SubSeq(bits, 2 + ebits, Len(bits)),
      E    |-> (IF expo = 0 THEN 1 ELSE expo) - bias - (Len(bits) - 1 - ebits) ]

FloatBits(bits, ebits, bias) ==
    FloatPartsOf(bits, ebits, bias, BitsValue(SubSeq(bits, 2, 1 + ebits)))

\* f32::from_be_bytes / f64::from_be_bytes
FloatParts(bs) ==
    IF Len(bs) = 4 THEN FloatBits(AllBits(bs), 8, 127) ELSE FloatBits(AllBits(bs), 11, 1023)

\* f64::is_finite, the condition under which Number::from_f64 is Some
FloatIsFinite(bs) == ~FloatParts(bs).nonfinite

IsIntegralParts(p) ==
    /\ ~p.nonfinite
    /\ \/ p.E >= 0
       \/ \A i \in 1..Len(p.mant) : (i > Len(p.mant) + p.E) => p.mant[i] = 0

\* value.fract() == 0.0: finite and without fractional part
FloatIsIntegral(bs) == IsIntegralParts(FloatParts(bs))

IntBitsOfParts(p) ==
    StripLeadingZeros(
        IF p.E >= 0 THEN p.mant \o Zeros(p.E)
        ELSE IF -p.E >= Len(p.mant) THEN <<>>
        ELSE SubSeq(p.mant, 1, Len(p.mant) + p.E))

\* bits of |value| for an integral value, without leading zeros
FloatIntBits(bs) == IntBitsOfParts(FloatParts(bs))

I64MaxDigits == <<9,2,2,3,3,7,2,0,3,6,8,5,4,7,7,5,8,0,7>>
I64MinDigits == <<9,2,2,3,3,7,2,0,3,6,8,5,4,7,7,5,8,0,8>>

I64String(ib, neg) ==
    IF ib = <<>> THEN <<Ch.zero>>
    ELSE IF Len(ib) > 63 THEN
        (IF neg THEN <<Ch.minus>> \o DigitChars(I64MinDigits) ELSE DigitChars(I64MaxDigits))
    ELSE (IF neg THEN <<Ch.minus>> ELSE <<>>) \o DigitChars(DecOfBitsRaw(ib))

\* (value as i64).to_string() for an integral value: the cast saturates
FloatAsI64String(bs) == I64String(FloatIntBits(bs), FloatParts(bs).neg)

RECURSIVE StripTrailingZeroDigits(_, _)
\* <<digits, k>> with trailing zero digits moved into the power of ten k
StripTrailingZeroDigits(d, k) ==
    IF d # <<>> /\ d[Len(d)] = 0 THEN StripTrailingZeroDigits(SubSeq(d, 1, Len(d) - 1), k + 1)
    ELSE <<d, k>>

RECURSIVE DecMulPow5(_, _)
DecMulPow5(d, n) == IF n = 0 THEN d ELSE DecMulPow5(DecMulAdd(d, 5, 0), n - 1)

RECURSIVE DecMulPow2(_, _)
DecMulPow2(d, n) ==
    IF n = 0 THEN d
    ELSE IF n >= 8 THEN DecMulPow2(DecMulAdd(d, 256, 0), n - 8)
    ELSE DecMulPow2(DecMulAdd(d, 2, 0), n - 1)

RECURSIVE ReduceDyadic(_, _)
\* <<m, E>> with the same value m * 2^E and an odd m
ReduceDyadic(m, E) ==
    IF m # <<>> /\ m[Len(m)] = 0 THEN ReduceDyadic(SubSeq(m, 1, Len(m) - 1), E + 1)
    ELSE <<m, E>>

\* m * 2^E as <<digits, k>>: digits * 10^k
DyadicDecimal(m, E) ==
    IF m = <<>> THEN <<<<>>, 0>>
    ELSE IF E >= 0 THEN <<DecMulPow2(DecOfBitsRaw(m), E), 0>>
    ELSE <<DecMulPow5(DecOfBitsRaw(m), -E), E>>

PairDecimal(r) == DyadicDecimal(r[1], r[2])

StripPair(raw) == StripTrailingZeroDigits(raw[1], raw[2])

DecimalRecord(neg, st) ==
    [neg |-> neg, digits |-> st[1], k |-> IF st[1] = <<>> THEN 0 ELSE st[2]]

DecimalOfParts(p) ==
    DecimalRecord(p.neg, StripPair(PairDecimal(ReduceDyadic(StripLeadingZeros(p.mant), p.E))))

\* the finite value as digits * 10^k, digits without trailing zero
\* (digits = <<>> for zero)
FloatDecimal(bs) == DecimalOfParts(FloatParts(bs))

SignChars(neg) == IF neg THEN <<Ch.minus>> ELSE <<>>

\* plain decimal notation of digits * 10^k, n = Len(digits) > 0
PlainDecimal(digits, k, n) ==
    IF k >= 0 THEN DigitChars(digits \o Zeros(k))
    ELSE IF n > -k THEN
        DigitChars(SubSeq(digits, 1, n + k)) \o <<Ch.dot>> \o DigitChars(SubSeq(digits, n + k + 1, n))
    ELSE <<Ch.zero, Ch.dot>> \o DigitChars(Zeros(-k - n) \o digits)

DisplayParts(p, d) ==
    IF p.nan THEN Lit.nan
    ELSE IF p.nonfinite THEN SignChars(p.neg) \o Lit.inf
    ELSE IF d.digits = <<>> THEN SignChars(p.neg) \o <<Ch.zero>>
    ELSE SignChars(p.neg) \o PlainDecimal(d.digits, d.k, Len(d.digits))

\* f64::to_string(): plain decimal notation, never an exponent
FloatDisplay(bs) == DisplayParts(FloatParts(bs), FloatDecimal(bs))

\* ryu's notation of digits * 10^k, n = Len(digits) > 0, kk = n + k the
\* position of the decimal point
RyuDecimal(digits, k, n, kk) ==
    IF k >= 0 /\ kk <= 16 THEN DigitChars(digits \o Zeros(k)) \o <<Ch.dot, Ch.zero>>
    ELSE IF kk > 0 /\ kk <= 16 THEN
        DigitChars(SubSeq(digits, 1, kk)) \o <<Ch.dot>> \o DigitChars(SubSeq(digits, kk + 1, n))
    ELSE IF kk > -5 /\ kk <= 0 THEN <<Ch.zero, Ch.dot>> \o DigitChars(Zeros(-kk) \o digits)
    ELSE DigitChars(<<digits[1]>>)
           \o (IF n > 1 THEN <<Ch.dot>> \o DigitChars(SubSeq(digits, 2, n)) ELSE <<>>)
           \o <<101>> \o IntToString(kk - 1)

JsonOfDecimal(d) ==
    IF d.digits = <<>> THEN SignChars(d.neg) \o <<Ch.zero, Ch.dot, Ch.zero>>
    ELSE SignChars(d.neg) \o RyuDecimal(d.digits, d.k, Len(d.digits), Len(d.digits) + d.k)

\* serde_json's rendering of a finite float (ryu): decimal notation while the
\* decimal point lies within -5 < position <= 16, else scientific notation
FloatToJson(bs) == JsonOfDecimal(FloatDecimal(bs))

(***************************************************************************)
(* JSON printing: serde_json::to_string and serde_json::to_string_pretty   *)
(***************************************************************************)
RECURSIVE ToJson(_), ToJsonItems(_), ToJsonEntries(_)
\* compact form, also Value::to_string()
ToJson(v) ==
    CASE v.t = "null"  -> Lit.null
      [] v.t = "bool"  -> (IF v.b THEN Lit.true ELSE Lit.false)
      [] v.t = "int"   -> NumberToString(v)
      [] v.t = "float" -> FloatToJson(v.bits)
      [] v.t = "str"   -> JsonStringLiteral(v.s)
      [] v.t = "arr"   -> <<Ch.lbracket>> \o ToJsonItems(v.a) \o <<Ch.rbracket>>
      [] v.t = "obj"   -> <<Ch.lbrace>> \o ToJsonEntries(v.o) \o <<Ch.rbrace>>

ToJsonItems(a) ==
    IF a = <<>> THEN <<>>
    ELSE ToJson(Head(a)) \o (IF Len(a) > 1 THEN <<Ch.comma>> ELSE <<>>) \o ToJsonItems(Tail(a))

ToJsonEntries(o) ==
    IF o = <<>> THEN <<>>
    ELSE JsonStringLiteral(Head(o).k) \o <<Ch.colon>> \o ToJson(Head(o).v)
         \o (IF Len(o) > 1 THEN <<Ch.comma>> ELSE <<>>) \o ToJsonEntries(Tail(o))

Indent(n) == [i \in 1..n |-> Ch.space]

RECURSIVE Pretty(_, _), PrettyItems(_, _), PrettyEntries(_, _)
\* pretty form with 2-space indentation, at nesting depth `depth`
Pretty(v, depth) ==
    CASE v.t = "arr" ->
            IF v.a = <<>> THEN <<Ch.lbracket, Ch.rbracket>>
            ELSE <<Ch.lbracket, Ch.newline>> \o PrettyItems(v.a, depth + 1)
                 \o <<Ch.newline>> \o Indent(2 * depth) \o <<Ch.rbracket>>
      [] v.t = "obj" ->
            IF v.o = <<>> THEN <<Ch.lbrace, Ch.rbrace>>
            ELSE <<Ch.lbrace, Ch.newline>> \o PrettyEntries(v.o, depth + 1)
                 \o <<Ch.newline>> \o Indent(2 * depth) \o <<Ch.rbrace>>
      [] OTHER -> ToJson(v)

PrettyItems(a, depth) ==
    IF a = <<>> THEN <<>>
    ELSE Indent(2 * depth) \o Pretty(Head(a), depth)
         \o (IF Len(a) > 1 THEN <<Ch.comma, Ch.newline>> ELSE <<>>)
         \o PrettyItems(Tail(a), depth)

PrettyEntries(o, depth) ==
    IF o = <<>> THEN <<>>
    ELSE Indent(2 * depth) \o JsonStringLiteral(Head(o).k) \o <<Ch.colon, Ch.space>>
         \o Pretty(Head(o).v, depth)
         \o (IF Len(o) > 1 THEN <<Ch.comma, Ch.newline>> ELSE <<>>)
         \o PrettyEntries(Tail(o), depth)

to_string_pretty(v) == Pretty(v, 0)

(***************************************************************************)
(* Bounds-checked reads                                                    *)
(***************************************************************************)
Ok(v, p) == [st |-> "ok", value |-> v, pos |-> p, err |-> "none"]
Err(e) == [st |-> "err", value |-> Null, pos |-> 0, err |-> e]
\* an out-of-range slice: the thread panics
Panic == [st |-> "panic", value |-> Null, pos |-> 0, err |-> "slice index out of range"]

\* safe_array::<N>: Some bytes, or the truncation error
safe_array_ok(data, start, N) == start + N <= Len(data)
safe_array(data, start, N) == Slice(data, start, start + N)

\* The error of a failed read of `width` bytes: a single byte is read with
\* safe_byte ("Unexpected end of data at position"), wider fields with
\* safe_array ("Truncated data: expected ...")
ReadError(width) == IF width = 1 THEN "UnexpectedEndAt" ELSE "TruncatedData"

\* A 16- or 32-bit length or count as usize.  Values of 2^30 and more are
\* all represented by LenCap: they exceed every buffer the model builds.
LenCap == Pow(2, 30)
LengthOf(bs) ==
    IF Len(bs) = 4 /\ bs[1] >= 64 THEN LenCap ELSE from_be_bytes(bs)

\* the builds of the crate: usize has 32 bits on wasm32, where an addition
\* that overflows wraps (release profile) or panics (overflow checks); the
\* unit tests run on a 64-bit host
Builds == {"wasm32_release", "wasm32_debug", "native"}

VARIABLE build

\* a 32-bit length of 2^31 or more, less 2^32
WordLessModulus(bs) == (bs[1] - 256) * Pow(2, 24) + from_be_bytes(Tail(bs))

\* `start + length` does not fit the usize of the build
Overflows(start, bs) ==
    /\ build # "native"
    /\ Len(bs) = 4
    /\ bs[1] >= 128
    /\ start + WordLessModulus(bs) >= 0

\* `pos + 1 + lw + length` as the build computes it: the sum, reduced
\* modulo 2^32 when it overflows a 32-bit usize
PayloadEnd(start, bs) ==
    IF Overflows(start, bs) THEN start + WordLessModulus(bs) ELSE start + LengthOf(bs)

\* the addition panics where overflow checks are compiled in
AddPanics(start, bs) == build = "wasm32_debug" /\ Overflows(start, bs)

\* bytes of the payload of a fixed-width format: float 32/64, uint 8..64,
\* int 8..64
PayloadWidth(byte) ==
    CASE byte \in {204, 208}      -> 1
      [] byte \in {205, 209}      -> 2
      [] byte \in {202, 206, 210} -> 4
      [] byte \in {203, 207, 211} -> 8

FixedKind(byte) ==
    IF byte \in {202, 203} THEN "float"
    ELSE IF byte \in 204..207 THEN "unsigned" ELSE "signed"

\* bytes of the length or count field: str/bin 8, 16, 32, array/map 16, 32
LenFieldWidth(byte) ==
    CASE byte \in {196, 217}           -> 1
      [] byte \in {197, 218, 220, 222} -> 2
      [] byte \in {198, 219, 221, 223} -> 4

(***************************************************************************)
(* parse_msgpack_value                                                     *)
(***************************************************************************)
RECURSIVE parse_msgpack_value(_, _), parse_array_loop(_, _, _, _), parse_map_loop(_, _, _, _),
          ArrayPush(_, _, _, _), MapKeyParsed(_, _, _, _), MapInsertParsed(_, _, _, _, _)

\* for _ in 0..count { arr.push(parse(current_pos)?) }
parse_array_loop(data, current_pos, count, arr) ==
    IF count = 0 THEN Ok(Array(arr), current_pos)
    ELSE ArrayPush(data, parse_msgpack_value(data, current_pos), count, arr)

\* the element r was parsed: `?` returns its error, else it is pushed
ArrayPush(data, r, count, arr) ==
    IF r.st # "ok" THEN r
    ELSE parse_array_loop(data, r.pos, count - 1, Append(arr, r.value))

\* for _ in 0..count { key, value, obj.insert(key_str, value) }
parse_map_loop(data, current_pos, count, obj) ==
    IF count = 0 THEN Ok(Object(obj), current_pos)
    ELSE MapKeyParsed(data, parse_msgpack_value(data, current_pos), count, obj)

\* the key k was parsed: `?` returns its error, else the value is parsed
MapKeyParsed(data, k, count, obj) ==
    IF k.st # "ok" THEN k
    ELSE MapInsertParsed(data, k.value, parse_msgpack_value(data, k.pos), count, obj)

\* key and value were parsed: key_str is the string itself or key.to_string()
MapInsertParsed(data, key, v, count, obj) ==
    IF v.st # "ok" THEN v
    ELSE parse_map_loop(data, v.pos, count - 1,
             MapInsert(obj, IF key.t = "str" THEN key.s ELSE ToJson(key), v.value))

\* Number::from_f64(value).unwrap_or(0.into())
FloatNumber(bs) == IF FloatIsFinite(bs) THEN Float(bs) ELSE Number(FALSE, <<0>>)

\* the value a fixed-width payload decodes to, by the kind of its tag
FixedValue(kind, bs) ==
    CASE kind = "float"    -> FloatNumber(bs)
      [] kind = "unsigned" -> UnsignedNumber(bs)
      [] kind = "signed"   -> SignedNumber(bs)

\* variant: the payload is sliced without the bounds check
ParseFixedUnchecked(data, pos, width, kind) ==
    IF pos + 1 + width > Len(data) THEN Panic
    ELSE Ok(FixedValue(kind, Slice(data, pos + 1, pos + 1 + width)), pos + 1 + width)

\* a fixed-width number: tag, then `width` bytes read through safe_array/safe_byte
ParseFixed(data, pos, width, kind) ==
    IF ~safe_array_ok(data, pos + 1, width) THEN Err(ReadError(width))
    ELSE Ok(FixedValue(kind, safe_array(data, pos + 1, width)), pos + 1 + width)

\* the payload from `start` to `start + length`: a sum that wrapped below
\* `start` passes the check and the slice panics
StrPayload(data, start, len_bytes) ==
    IF AddPanics(start, len_bytes) THEN Panic
    ELSE IF PayloadEnd(start, len_bytes) > Len(data) THEN Err("TruncatedString")
    ELSE IF PayloadEnd(start, len_bytes) < start THEN Panic
    ELSE Ok(String(from_utf8_lossy(Slice(data, start, PayloadEnd(start, len_bytes)))),
            PayloadEnd(start, len_bytes))

\* str8/16/32: length field of lw bytes, then the checked payload
ParseStr(data, pos, lw) ==
    IF ~safe_array_ok(data, pos + 1, lw) THEN Err(ReadError(lw))
    ELSE StrPayload(data, pos + 1 + lw, safe_array(data, pos + 1, lw))

\* the payload is skipped: the new position is the sum the build computed
BinPayload(data, start, len_bytes) ==
    IF AddPanics(start, len_bytes) THEN Panic
    ELSE IF PayloadEnd(start, len_bytes) > Len(data) THEN Err("TruncatedBinary")
    ELSE Ok(Null, PayloadEnd(start, len_bytes))

\* variant: the bin family is missing from the dispatch table
ParseBinUnlisted(data, pos, lw) == Err("UnknownFormat")

\* bin8/16/32: length field of lw bytes, the payload is skipped and decodes
\* to Null
ParseBin(data, pos, lw) ==
    IF ~safe_array_ok(data, pos + 1, lw) THEN Err(ReadError(lw))
    ELSE BinPayload(data, pos + 1 + lw, safe_array(data, pos + 1, lw))

parse_msgpack_value(data, pos) ==
    IF pos >= Len(data) THEN Err("UnexpectedEnd")
    ELSE LET byte == At(data, pos) IN
    CASE byte <= 127 -> Ok(UnsignedNumber(<<byte>>), pos + 1)
      [] byte >= 224 -> Ok(SignedNumber(<<byte>>), pos + 1)
      [] byte \in 128..143 -> parse_map_loop(data, pos + 1, byte % 16, <<>>)
      [] byte \in 144..159 -> parse_array_loop(data, pos + 1, byte % 16, <<>>)
      [] byte \in 160..191 ->
            LET length == byte % 32
            IN  IF pos + 1 + length > Len(data) THEN Panic
                ELSE Ok(String(from_utf8_lossy(Slice(data, pos + 1, pos + 1 + length))),
                        pos + 1 + length)
      [] byte = 192 -> Ok(Null, pos + 1)
      [] byte = 194 -> Ok(Bool(FALSE), pos + 1)
      [] byte = 195 -> Ok(Bool(TRUE), pos + 1)
      [] byte \in 202..211 -> ParseFixed(data, pos, PayloadWidth(byte), FixedKind(byte))
      [] byte \in 217..219 -> ParseStr(data, pos, LenFieldWidth(byte))
      [] byte \in {220, 221} ->
            IF ~safe_array_ok(data, pos + 1, LenFieldWidth(byte)) THEN Err("TruncatedData")
            ELSE parse_array_loop(data, pos + 1 + LenFieldWidth(byte),
                     LengthOf(safe_array(data, pos + 1, LenFieldWidth(byte))), <<>>)
      [] byte \in {222, 223} ->
            IF ~safe_array_ok(data, pos + 1, LenFieldWidth(byte)) THEN Err("TruncatedData")
            ELSE parse_map_loop(data, pos + 1 + LenFieldWidth(byte),
                     LengthOf(safe_array(data, pos + 1, LenFieldWidth(byte))), <<>>)
      [] byte \in 196..198 -> ParseBin(data, pos, LenFieldWidth(byte))
      [] OTHER -> Err("UnknownFormat")

(***************************************************************************)
(* Text cursor                                                             *)
(***************************************************************************)
RECURSIVE skip_whitespace(_, _)
skip_whitespace(json_string, pos) ==
    IF pos < Len(json_string) /\ is_whitespace(At(json_string, pos))
    THEN skip_whitespace(json_string, pos + 1)
    ELSE pos

RECURSIVE skip_whitespace_and_delimiters(_, _, _)
skip_whitespace_and_delimiters(json_string, pos, delimiter) ==
    IF /\ pos < Len(json_string)
       /\ (is_whitespace(At(json_string, pos)) \/ At(json_string, pos) = delimiter)
    THEN skip_whitespace_and_delimiters(json_string, pos + 1, delimiter)
    ELSE pos

\* if pos < json_chars.len() && json_chars[pos] == c { pos += 1 }
SkipChar(json_string, pos, c) ==
    IF pos < Len(json_string) /\ At(json_string, pos) = c THEN pos + 1 ELSE pos

(***************************************************************************)
(* build_mappings                                                          *)
(***************************************************************************)
PositionMapping(js, je, hs, he, ty) ==
    [json_start |-> js, json_end |-> je, hex_start |-> hs, hex_end |-> he, mapping_type |-> ty]

\* Results carry the mappings vector: it is a &mut parameter, so what was
\* pushed before an error stays in it.
BOk(maps, hex, json) == [st |-> "ok", maps |-> maps, hex |-> hex, json |-> json, err |-> "none"]
BErr(maps, e) == [st |-> "err", maps |-> maps, hex |-> 0, json |-> 0, err |-> e]
BPanic(maps) ==
    [st |-> "panic", maps |-> maps, hex |-> 0, json |-> 0, err |-> "slice index out of range"]
BFail(maps, r) == IF r.st = "panic" THEN BPanic(maps) ELSE BErr(maps, r.err)

\* a scalar leaf: one Value mapping over [hex_pos, hex_end) and text_len characters
PushLeaf(maps, hex_pos, hex_end, json_pos, text_len) ==
    BOk(Append(maps, PositionMapping(json_pos, json_pos + text_len, hex_pos, hex_end, "Value")),
        hex_end, json_pos + text_len)

\* the payload of a string leaf, sliced as the decoder slices it
LeafStrPayload(data, maps, hex_pos, json_pos, start, len_bytes) ==
    IF AddPanics(start, len_bytes) THEN BPanic(maps)
    ELSE IF PayloadEnd(start, len_bytes) > Len(data) THEN BErr(maps, "TruncatedString")
    ELSE IF PayloadEnd(start, len_bytes) < start THEN BPanic(maps)
    ELSE PushLeaf(maps, hex_pos, PayloadEnd(start, len_bytes), json_pos,
             StrLen(JsonStringLiteral(
                 from_utf8_lossy(Slice(data, start, PayloadEnd(start, len_bytes))))))

\* variant: the declared length is not compared with the bytes left
LeafStrUnchecked(data, maps, hex_pos, json_pos, lw) ==
    IF ~safe_array_ok(data, hex_pos + 1, lw) THEN BErr(maps, ReadError(lw))
    ELSE PushLeaf(maps, hex_pos, hex_pos + 1 + lw + LengthOf(safe_array(data, hex_pos + 1, lw)),
                  json_pos, 2)

\* str8/16/32
LeafStr(data, maps, hex_pos, json_pos, lw) ==
    IF ~safe_array_ok(data, hex_pos + 1, lw) THEN BErr(maps, ReadError(lw))
    ELSE LeafStrPayload(data, maps, hex_pos, json_pos, hex_pos + 1 + lw,
                        safe_array(data, hex_pos + 1, lw))

UnsignedText(bs) == NumberToString(UnsignedNumber(bs))
SignedText(bs) == NumberToString(SignedNumber(bs))

\* float 32: no magnitude guard before the cast
Float32Text(bs) ==
    IF FloatIsIntegral(bs) THEN FloatAsI64String(bs) \o <<Ch.dot, Ch.zero>>
    ELSE FloatDisplay(bs)

\* float 64: value.fract() == 0.0 && value.abs() < i64::MAX as f64
Float64Text(bs) ==
    IF FloatIsIntegral(bs) /\ Len(FloatIntBits(bs)) <= 63
    THEN FloatAsI64String(bs) \o <<Ch.dot, Ch.zero>>
    ELSE FloatDisplay(bs)

\* value_str of a fixed-width payload, by the kind of its tag
FixedText(kind, bs) ==
    CASE kind = "float" /\ Len(bs) = 4 -> Float32Text(bs)
      [] kind = "float" /\ Len(bs) = 8 -> Float64Text(bs)
      [] kind = "unsigned" -> UnsignedText(bs)
      [] kind = "signed"   -> SignedText(bs)

\* variant: the returned end position leaves out the format byte
LeafFixedShort(data, maps, hex_pos, json_pos, width, kind) ==
    IF ~safe_array_ok(data, hex_pos + 1, width) THEN BErr(maps, ReadError(width))
    ELSE PushLeaf(maps, hex_pos, hex_pos + width, json_pos,
                  Len(FixedText(kind, safe_array(data, hex_pos + 1, width))))

\* a fixed-width number: value_str = text(bytes), text length value_str.len()
LeafFixed(data, maps, hex_pos, json_pos, width, kind) ==
    IF ~safe_array_ok(data, hex_pos + 1, width) THEN BErr(maps, ReadError(width))
    ELSE PushLeaf(maps, hex_pos, hex_pos + 1 + width, json_pos,
                  Len(FixedText(kind, safe_array(data, hex_pos + 1, width))))

MapKeyPushedLate(r, m) == [r EXCEPT !.maps = Append(@, m)]

RECURSIVE build_mappings(_, _, _, _, _), build_array_loop(_, _, _, _, _, _),
          build_map_loop(_, _, _, _, _, _), ArrayChildBuilt(_, _, _, _),
          MapKeyBuilt(_, _, _, _, _, _, _), MapValue(_, _, _, _, _, _),
          MapChildBuilt(_, _, _, _), MapKeyBuiltLate(_, _, _, _, _, _, _)

build_array_loop(data, json_string, maps, current_hex_pos, current_json_pos, count) ==
    IF count = 0 THEN BOk(maps, current_hex_pos, current_json_pos)
    ELSE ArrayChildBuilt(data, json_string,
             build_mappings(data, json_string, maps, current_hex_pos,
                 skip_whitespace_and_delimiters(json_string, current_json_pos, Ch.comma)),
             count)

\* the child was walked: `?` returns its error, else the loop goes on
ArrayChildBuilt(data, json_string, r, count) ==
    IF r.st # "ok" THEN r
    ELSE build_array_loop(data, json_string, r.maps, r.hex, r.json, count - 1)

build_map_loop(data, json_string, maps, current_hex_pos, current_json_pos, count) ==
    IF count = 0 THEN BOk(maps, current_hex_pos, current_json_pos)
    ELSE MapKeyBuilt(data, json_string, maps, current_hex_pos,
             skip_whitespace_and_delimiters(json_string, current_json_pos, Ch.comma),
             parse_msgpack_value(data, current_hex_pos), count)

\* variant: the Key mapping is pushed after the entry's value was walked
MapKeyBuiltLate(data, json_string, maps, key_hex_start, current_json_pos, key, count) ==
    IF key.st # "ok" THEN BFail(maps, key)
    ELSE MapKeyPushedLate(
             MapValue(data, json_string, maps, key.pos, current_json_pos, count),
             PositionMapping(current_json_pos, current_json_pos + StrLen(ToJson(key.value)),
                             key_hex_start, key.pos, "Key"))

\* the key was parsed from key_hex_start: a Key mapping is pushed when the
\* text cursor is on a quote, key_str.len() long
MapKeyBuilt(data, json_string, maps, key_hex_start, current_json_pos, key, count) ==
    IF key.st # "ok" THEN BFail(maps, key)
    ELSE IF current_json_pos < Len(json_string) /\ At(json_string, current_json_pos) = Ch.quote
    THEN MapValue(data, json_string,
             Append(maps, PositionMapping(current_json_pos,
                                          current_json_pos + StrLen(ToJson(key.value)),
                                          key_hex_start, key.pos, "Key")),
             key.pos, current_json_pos + StrLen(ToJson(key.value)), count)
    ELSE MapValue(data, json_string, maps, key.pos, current_json_pos, count)

\* the value of the entry, after the colon
MapValue(data, json_string, maps, current_hex_pos, current_json_pos, count) ==
    MapChildBuilt(data, json_string,
        build_mappings(data, json_string, maps, current_hex_pos,
            skip_whitespace_and_delimiters(json_string, current_json_pos, Ch.colon)),
        count)

MapChildBuilt(data, json_string, r, count) ==
    IF r.st # "ok" THEN r
    ELSE build_map_loop(data, json_string, r.maps, r.hex, r.json, count - 1)

\* after the children: the closing bracket is skipped
CloseContainer(json_string, r, close) ==
    IF r.st # "ok" THEN r
    ELSE BOk(r.maps, r.hex, SkipChar(json_string, skip_whitespace(json_string, r.json), close))

\* a container: opening bracket, the children, closing bracket
BuildContainer(data, json_string, maps, first_hex, json_pos, count, is_map) ==
    IF is_map
    THEN CloseContainer(json_string,
             build_map_loop(data, json_string, maps, first_hex,
                            SkipChar(json_string, json_pos, Ch.lbrace), count),
             Ch.rbrace)
    ELSE CloseContainer(json_string,
             build_array_loop(data, json_string, maps, first_hex,
                              SkipChar(json_string, json_pos, Ch.lbracket), count),
             Ch.rbracket)

\* "For other types, skip them": the text cursor does not move
SkipOther(maps, r, json_pos) ==
    IF r.st # "ok" THEN BFail(maps, r) ELSE BOk(maps, r.pos, json_pos)

\* array16/32, map16/32: the count field of lw bytes is read first
BuildCounted(data, json_string, maps, hex_pos, json_pos, lw, is_map) ==
    IF ~safe_array_ok(data, hex_pos + 1, lw) THEN BErr(maps, ReadError(lw))
    ELSE BuildContainer(data, json_string, maps, hex_pos + 1 + lw, json_pos,
                        LengthOf(safe_array(data, hex_pos + 1, lw)), is_map)

build_mappings(data, json_string, maps, hex_pos, json_pos0) ==
    IF hex_pos >= Len(data) THEN BErr(maps, "UnexpectedEnd")
    ELSE LET byte == At(data, hex_pos)
             json_pos == skip_whitespace(json_string, json_pos0)
    IN
    CASE byte <= 127 ->
            PushLeaf(maps, hex_pos, hex_pos + 1, json_pos, Len(UnsignedText(<<byte>>)))
      [] byte >= 224 ->
            PushLeaf(maps, hex_pos, hex_pos + 1, json_pos, Len(SignedText(<<byte>>)))
      [] byte \in 128..159 ->
            BuildContainer(data, json_string, maps, hex_pos + 1, json_pos, byte % 16,
                           byte \in 128..143)
      [] byte \in 160..191 ->
            LET length == byte % 32
            IN  IF hex_pos + 1 + length > Len(data) THEN BPanic(maps)
                ELSE PushLeaf(maps, hex_pos, hex_pos + 1 + length, json_pos,
                       StrLen(JsonStringLiteral(
                           from_utf8_lossy(Slice(data, hex_pos + 1, hex_pos + 1 + length)))))
      [] byte = 192 -> PushLeaf(maps, hex_pos, hex_pos + 1, json_pos, 4)
      [] byte = 194 -> PushLeaf(maps, hex_pos, hex_pos + 1, json_pos, 5)
      [] byte = 195 -> PushLeaf(maps, hex_pos, hex_pos + 1, json_pos, 4)
      [] byte \in 202..211 ->
            LeafFixed(data, maps, hex_pos, json_pos, PayloadWidth(byte), FixedKind(byte))
      [] byte \in 217..219 -> LeafStr(data, maps, hex_pos, json_pos, LenFieldWidth(byte))
      [] byte \in 220..223 ->
            BuildCounted(data, json_string, maps, hex_pos, json_pos, LenFieldWidth(byte),
                         byte \in {222, 223})
      [] OTHER -> SkipOther(maps, parse_msgpack_value(data, hex_pos), json_pos)

\* create_position_mappings: the result of build_mappings is discarded and
\* the vector returned as it is; a panic unwinds through it
create_position_mappings(msgpack_data, json_string) ==
    LET r == build_mappings(msgpack_data, json_string, <<>>, 0, 0)
    IN  [panicked |-> r.st = "panic", mappings |-> r.maps]

(***************************************************************************)
(* Selection resolver                                                      *)
(***************************************************************************)
\* variant: the overlap test is not strict, a mapping that only touches the
\* selection counts as overlapping
OverlappingInclusive(mappings, json_sel_start, json_sel_end) ==
    {i \in 1..Len(mappings) :
        mappings[i].json_start <= json_sel_end /\ mappings[i].json_end >= json_sel_start}

Overlapping(mappings, json_sel_start, json_sel_end) ==
    {i \in 1..Len(mappings) :
        mappings[i].json_start < json_sel_end /\ mappings[i].json_end > json_sel_start}

None == [some |-> FALSE, start |-> 0, end |-> 0]
Some(a, b) == [some |-> TRUE, start |-> a, end |-> b]

SetMin(S) == CHOOSE x \in S : \A y \in S : x <= y
SetMax(S) == CHOOSE x \in S : \A y \in S : x >= y

find_hex_range_for_json_selection(mappings, json_sel_start, json_sel_end) ==
    LET overlapping == Overlapping(mappings, json_sel_start, json_sel_end)
    IN  IF overlapping = {} THEN None
        ELSE Some(SetMin({mappings[i].hex_start : i \in overlapping}),
                  SetMax({mappings[i].hex_end : i \in overlapping}))

\* variant: the separator after the last byte is kept
byte_range_with_trailing_space(hex_start, hex_end) ==
    [char_start |-> hex_start * 3, char_end |-> hex_end * 3]

byte_range_to_hex_char_range(hex_start, hex_end) ==
    [char_start |-> hex_start * 3, char_end |-> hex_end * 3 - 1]

(***************************************************************************)
(* Hex rendering: base64_to_hex after the base64 decoding                  *)
(***************************************************************************)
HexDigitUpper(n) == IF n < 10 THEN 48 + n ELSE 65 + (n - 10)

\* format!("{:02X}", b)
HexByte(b) == <<HexDigitUpper(b \div 16), HexDigitUpper(b % 16)>>

RECURSIVE JoinSpace(_)
JoinSpace(parts) ==
    IF parts = <<>> THEN <<>>
    ELSE IF Len(parts) = 1 THEN Head(parts)
    ELSE Head(parts) \o <<Ch.space>> \o JoinSpace(Tail(parts))

\* variant: format!("{:02x}", b)
bytes_to_hex_lower(bytes) ==
    JoinSpace([i \in 1..Len(bytes) |-> <<HexDigitLower(bytes[i] \div 16), HexDigitLower(bytes[i] % 16)>>])

bytes_to_hex(bytes) == JoinSpace([i \in 1..Len(bytes) |-> HexByte(bytes[i])])

(***************************************************************************)
(* Inputs.  Buffers are built bottom-up from encodings of scalars, keys    *)
(* and containers in each header width, from every truncation of a sample  *)
(* of each format, and from all short sequences over a byte alphabet.      *)
(***************************************************************************)
MaxItems == 2
MaxRawLen == 3
MaxSelLen == 2

\* integers, nil, booleans and ASCII strings
PlainScalars ==
    { <<5>>, <<123>>, <<255>>, <<208, 156>>, <<192>>, <<195>>, <<194>>,
      <<161, 97>>, <<162, 34, 92>>, <<217, 2, 104, 105>> }

\* the string of five two-byte characters U+00E9
NonAscii == <<170, 195, 169, 195, 169, 195, 169, 195, 169, 195, 169>>

\* float64 1.5, float32 2.0, bin8 of one byte
OtherScalars ==
    { NonAscii, <<203, 63, 248, 0, 0, 0, 0, 0, 0>>, <<202, 64, 0, 0, 0>>, <<196, 1, 0>> }

\* container header for n children in the given width (1, 3 or 5 bytes)
Header(is_map, n, hw) ==
    IF hw = 1 THEN <<(IF is_map THEN 128 ELSE 144) + n>>
    ELSE IF hw = 3 THEN <<(IF is_map THEN 222 ELSE 220), 0, n>>
    ELSE <<(IF is_map THEN 223 ELSE 221), 0, 0, 0, n>>

SeqsUpTo(S, n) == UNION {[1..k -> S] : k \in 0..n}

ArraysOf(elems, hw) ==
    {Header(FALSE, Len(c), hw) \o Concat(c) : c \in SeqsUpTo(elems, MaxItems)}

MapsOf(keys, vals, hw) ==
    {Header(TRUE, Len(c), hw) \o Concat([i \in 1..Len(c) |-> c[i][1] \o c[i][2]]) :
        c \in SeqsUpTo(keys \X vals, MaxItems)}

\* children of arrays: scalars, the empty array, the map {"a": 5}
ArrayElems ==
    { <<5>>, <<255>>, <<192>>, <<194>>, <<161, 97>>, NonAscii, <<144>>, <<129, 161, 97, 5>> }

\* keys "a" and "b"; entry values 5, "a", the non-ASCII string, [true]
EntryKeys == { <<161, 97>>, <<161, 98>> }
EntryValues == { <<5>>, <<161, 97>>, NonAscii, <<145, 195>> }

\* children of the containers with 16- and 32-bit counts
WideElems == { <<5>>, <<161, 97>> }

\* single cases: the "hello" example, an integer key, a non-ASCII key, bin
\* and floats inside an array, three levels of nesting
SpecialBuffers ==
    { <<129, 165, 104, 101, 108, 108, 111, 123>>,
      <<147, 1, 2, 3>>, <<147, 192, 195, 194>>,
      <<129, 7, 5>>, <<130, 162, 195, 169, 5, 161, 98, 1>>,
      <<146, 196, 1, 0, 5>>, <<146, 203, 63, 248, 0, 0, 0, 0, 0, 0, 5>>,
      <<130, 161, 97, 146, 129, 161, 98, 144, 5, 161, 99, 128>> }

\* floats: float64 100.0, 1e20, -0.0, +infinity and a NaN; float32 1e10 and
\* +infinity; +infinity before a sibling
FloatScalars ==
    { <<203, 64, 89, 0, 0, 0, 0, 0, 0>>, <<203, 68, 21, 175, 29, 120, 181, 140, 64>>,
      <<203, 128, 0, 0, 0, 0, 0, 0, 0>>, <<203, 127, 240, 0, 0, 0, 0, 0, 0>>,
      <<203, 127, 248, 0, 0, 0, 0, 0, 0>>,
      <<202, 80, 21, 2, 249>>, <<202, 127, 128, 0, 0>>,
      <<146, 202, 127, 128, 0, 0, 5>> }

StructuredBuffers ==
    PlainScalars \cup OtherScalars \cup FloatScalars \cup SpecialBuffers
      \cup ArraysOf(ArrayElems, 1) \cup MapsOf(EntryKeys, EntryValues, 1)
      \cup UNION {ArraysOf(WideElems, hw) \cup MapsOf({<<161, 97>>}, WideElems, hw) : hw \in {3, 5}}

\* one complete value of every fixed-width and length-prefixed format
FormatSamples ==
    { <<202, 64, 0, 0, 0>>, <<203, 63, 248, 0, 0, 0, 0, 0, 0>>,
      <<204, 200>>, <<205, 1, 0>>, <<206, 0, 1, 17, 112>>,
      <<207, 255, 255, 255, 255, 255, 255, 255, 255>>,
      <<208, 156>>, <<209, 255, 0>>, <<210, 128, 0, 0, 0>>,
      <<211, 128, 0, 0, 0, 0, 0, 0, 0>>,
      <<217, 2, 104, 105>>, <<218, 0, 2, 104, 105>>, <<219, 0, 0, 0, 2, 104, 105>>,
      <<219, 255, 255, 255, 255, 104>>,
      <<196, 2, 0, 1>>, <<197, 0, 2, 0, 1>>, <<198, 0, 0, 0, 2, 0, 1>>,
      <<198, 255, 255, 255, 251>>, <<129, 198, 255, 255, 255, 251>>,
      <<220, 0, 1, 5>>, <<221, 0, 0, 0, 1, 5>>,
      <<222, 0, 1, 161, 97, 5>>, <<223, 0, 0, 0, 1, 161, 97, 5>>,
      <<165, 104, 101, 108, 108, 111>>,
      <<129, 165, 104, 101, 108, 108, 111, 123>> }

Prefixes(b) == {SubSeq(b, 1, k) : k \in 1..Len(b)}

\* every truncation of a sample, alone and as last element after a walked
\* leaf or a walked key
TruncatedBuffers ==
    UNION { Prefixes(b) \cup {<<146, 5>> \o q : q \in Prefixes(b)}
                        \cup {<<129, 161, 97>> \o q : q \in Prefixes(b)} : b \in FormatSamples }

\* fixint 1, fixmap(1), fixarray(2), fixstr(1), nil, the unassigned 0xc1,
\* bin8, str8, array16
ByteAlphabet == {1, 129, 146, 161, 192, 193, 196, 217, 220}

RawBuffers == UNION {[1..k -> ByteAlphabet] : k \in 0..MaxRawLen}

\* texts that are not the rendering of the buffer
UnrelatedTexts ==
    { <<>>, <<Ch.lbracket, Ch.quote>>,
      <<Ch.lbrace, Ch.newline, Ch.space, Ch.space, Ch.quote, 120, Ch.quote, Ch.colon,
        Ch.space, Ch.zero, Ch.newline, Ch.rbrace>> }

\* the buffer decodes as one value that fills it
Decodes(data) ==
    LET r == parse_msgpack_value(data, 0) IN r.st = "ok" /\ r.pos = Len(data)

\* the canonical text of a buffer: the pretty form of its decoded value
CanonicalText(data) == to_string_pretty(parse_msgpack_value(data, 0).value)

(***************************************************************************)
(* Reference readings of a buffer and of a text, used to state properties: *)
(* the items (keys and scalar leaves) of a buffer in byte order, and the   *)
(* literals (strings, numbers, null/true/false) of a JSON text in order.   *)
(***************************************************************************)
IsMapTag(b) == b \in 128..143 \/ b \in {222, 223}
IsArrayTag(b) == b \in 144..159 \/ b \in {220, 221}
IsContainerTag(b) == IsMapTag(b) \/ IsArrayTag(b)
IsStrTag(b) == b \in 160..191 \/ b \in {217, 218, 219}
IsBinTag(b) == b \in {196, 197, 198}
IsIntTag(b) == b <= 127 \/ b >= 224 \/ b \in 204..211

\* width of the count field after a container tag
CountWidth(b) == IF b \in {220, 222} THEN 2 ELSE IF b \in {221, 223} THEN 4 ELSE 0

\* number of children (entries for a map) of the container at pos
ChildCount(d, pos) ==
    LET b == At(d, pos)
    IN  IF CountWidth(b) = 0 THEN b % 16
        ELSE LengthOf(Slice(d, pos + 1, pos + 1 + CountWidth(b)))

RECURSIVE ItemsAt(_, _, _), ItemsLoop(_, _, _, _, _)
\* [items, pos]: the items of the value at pos and the position after it;
\* the buffer decodes
ItemsAt(d, pos, role) ==
    LET b == At(d, pos)
    IN  IF IsContainerTag(b)
        THEN ItemsLoop(d, pos + 1 + CountWidth(b), ChildCount(d, pos), IsMapTag(b), <<>>)
        ELSE [items |-> <<[hs |-> pos, he |-> parse_msgpack_value(d, pos).pos,
                           role |-> role, tag |-> b]>>,
              pos |-> parse_msgpack_value(d, pos).pos]

ItemsLoop(d, pos, count, is_map, acc) ==
    IF count = 0 THEN [items |-> acc, pos |-> pos]
    ELSE IF is_map THEN
        LET ke == parse_msgpack_value(d, pos).pos
            v  == ItemsAt(d, ke, "Value")
        IN  ItemsLoop(d, v.pos, count - 1, is_map,
                      Append(acc, [hs |-> pos, he |-> ke, role |-> "Key", tag |-> At(d, pos)])
                        \o v.items)
    ELSE LET v == ItemsAt(d, pos, "Value")
         IN  ItemsLoop(d, v.pos, count - 1, is_map, acc \o v.items)

Items(d) == ItemsAt(d, 0, "Value").items

IsJsonSpace(c) == c \in {9, 10, 13, 32}
IsJsonPunct(c) ==
    c \in {Ch.lbrace, Ch.rbrace, Ch.lbracket, Ch.rbracket, Ch.comma, Ch.colon}

RECURSIVE StringEnd(_, _), BareEnd(_, _), Lex(_, _)
\* position after the closing quote of a string whose body starts at i
StringEnd(t, i) ==
    IF i >= Len(t) THEN Len(t)
    ELSE IF At(t, i) = Ch.backslash THEN StringEnd(t, i + 2)
    ELSE IF At(t, i) = Ch.quote THEN i + 1
    ELSE StringEnd(t, i + 1)

BareEnd(t, i) ==
    IF i >= Len(t) \/ IsJsonSpace(At(t, i)) \/ IsJsonPunct(At(t, i)) THEN i
    ELSE BareEnd(t, i + 1)

Lex(t, i) ==
    IF i >= Len(t) THEN <<>>
    ELSE IF IsJsonSpace(At(t, i)) \/ IsJsonPunct(At(t, i)) THEN Lex(t, i + 1)
    ELSE LET j == IF At(t, i) = Ch.quote THEN StringEnd(t, i + 1) ELSE BareEnd(t, i)
         IN  <<[js |-> i, je |-> j]>> \o Lex(t, j)

\* the literals of a text in order, as text spans
Literals(t) == Lex(t, 0)

(***************************************************************************)
(* Converters: base64 (the STANDARD engine), the MessagePack encoder       *)
(* (rmp_serde::to_vec on a Value) and the JSON parser (serde_json).         *)
(***************************************************************************)
\* the STANDARD alphabet: A-Z a-z 0-9 + /
B64Char(n) ==
    IF n < 26 THEN 65 + n
    ELSE IF n < 52 THEN 97 + (n - 26)
    ELSE IF n < 62 THEN 48 + (n - 52)
    ELSE IF n = 62 THEN 43 ELSE 47

\* the 6-bit value of a symbol, -1 for any other character
B64Index(c) ==
    IF c \in 65..90 THEN c - 65
    ELSE IF c \in 97..122 THEN c - 97 + 26
    ELSE IF c \in 48..57 THEN c - 48 + 52
    ELSE IF c = 43 THEN 62
    ELSE IF c = 47 THEN 63 ELSE -1

RECURSIVE STANDARD_encode(_)
\* STANDARD.encode(&bytes): 3 bytes to 4 symbols, '=' padding
STANDARD_encode(bs) ==
    IF bs = <<>> THEN <<>>
    ELSE IF Len(bs) = 1 THEN
        <<B64Char((bs[1] \div 4)), B64Char(((bs[1] % 4) * 16)), 61, 61>>
    ELSE IF Len(bs) = 2 THEN
        <<B64Char((bs[1] \div 4)), B64Char(((bs[1] % 4) * 16) + (bs[2] \div 16)),
          B64Char(((bs[2] % 16) * 4)), 61>>
    ELSE <<B64Char((bs[1] \div 4)), B64Char(((bs[1] % 4) * 16) + (bs[2] \div 16)),
           B64Char(((bs[2] % 16) * 4) + (bs[3] \div 64)), B64Char(bs[3] % 64)>>
         \o STANDARD_encode(SubSeq(bs, 4, Len(bs)))

RECURSIVE PadCount(_)
\* number of trailing '=' characters
PadCount(s) ==
    IF s # <<>> /\ s[Len(s)] = 61 THEN 1 + PadCount(SubSeq(s, 1, Len(s) - 1)) ELSE 0

RECURSIVE SextetBytes(_)
\* the bytes of a sequence of 6-bit values whose length is not 1 modulo 4
SextetBytes(x) ==
    IF x = <<>> THEN <<>>
    ELSE IF Len(x) = 2 THEN <<(x[1] * 4) + (x[2] \div 16)>>
    ELSE IF Len(x) = 3 THEN <<(x[1] * 4) + (x[2] \div 16), ((x[2] % 16) * 16) + (x[3] \div 4)>>
    ELSE <<(x[1] * 4) + (x[2] \div 16), ((x[2] % 16) * 16) + (x[3] \div 4), ((x[3] % 4) * 64) + x[4]>>
         \o SextetBytes(SubSeq(x, 5, Len(x)))

\* the symbols before the padding form a canonical input: every character
\* is of the alphabet, the padding completes the last quantum and the bits
\* the last symbol carries beyond the last byte are zero
CanonicalBody(x, pad) ==
    /\ \A i \in 1..Len(x) : x[i] >= 0
    /\ \/ Len(x) % 4 = 0 /\ pad = 0
       \/ Len(x) % 4 = 2 /\ pad = 2 /\ x[Len(x)] % 16 = 0
       \/ Len(x) % 4 = 3 /\ pad = 1 /\ x[Len(x)] % 4 = 0

DecodeBody(s, pad) == [i \in 1..Len(s) - pad |-> B64Index(s[i])]

\* STANDARD.decode(s): Ok(bytes) or a DecodeError
STANDARD_decode(s) ==
    IF CanonicalBody(DecodeBody(s, PadCount(s)), PadCount(s))
    THEN [ok |-> TRUE, bytes |-> SextetBytes(DecodeBody(s, PadCount(s)))]
    ELSE [ok |-> FALSE, bytes |-> <<>>]

\* the UTF-8 bytes of a code point
Utf8Encode(c) ==
    IF c < 128 THEN <<c>>
    ELSE IF c < 2048 THEN <<192 + (c \div 64), 128 + (c % 64)>>
    ELSE IF c < 65536 THEN
        <<224 + (c \div 4096), 128 + ((c \div 64) % 64), 128 + (c % 64)>>
    ELSE <<240 + (c \div 262144), 128 + ((c \div 4096) % 64), 128 + ((c \div 64) % 64),
           128 + (c % 64)>>

RECURSIVE as_bytes(_)
\* str::as_bytes(): the UTF-8 bytes of a text
as_bytes(s) == IF s = <<>> THEN <<>> ELSE Utf8Encode(Head(s)) \o as_bytes(Tail(s))

RECURSIVE DecDivRem(_, _, _, _)
\* long division of the digits d by k: [q |-> digits of the quotient with
\* leading zeros, r |-> remainder]
DecDivRem(d, k, rem, acc) ==
    IF d = <<>> THEN [q |-> acc, r |-> rem]
    ELSE DecDivRem(Tail(d), k, (rem * 10 + Head(d)) % k,
                   Append(acc, (rem * 10 + Head(d)) \div k))

RECURSIVE to_be_bytes(_, _)
\* the low n bytes of the number with decimal digits d, big-endian
to_be_bytes(d, n) ==
    IF n = 0 THEN <<>>
    ELSE Append(to_be_bytes(DecDivRem(d, 256, 0, <<>>).q, n - 1),
                DecDivRem(d, 256, 0, <<>>).r)

RECURSIVE SubOne(_)
\* bs - 1 on big-endian bytes, bs not zero
SubOne(bs) ==
    IF bs[Len(bs)] > 0 THEN [bs EXCEPT ![Len(bs)] = @ - 1]
    ELSE Append(SubOne(SubSeq(bs, 1, Len(bs) - 1)), 255)

\* the 8 two's complement bytes of -m, m given by its 8 magnitude bytes
Negated(m) == [i \in 1..8 |-> 255 - SubOne(m)[i]]

LeadingAre(bs, n, b) == \A i \in 1..n : bs[i] = b

\* variant: a value beyond the uint32 range is written as an int64
write_uint_as_i64(m) ==
    IF LeadingAre(m, 7, 0) /\ m[8] < 128 THEN <<m[8]>>
    ELSE IF LeadingAre(m, 7, 0) THEN <<204, m[8]>>
    ELSE IF LeadingAre(m, 6, 0) THEN <<205>> \o SubSeq(m, 7, 8)
    ELSE IF LeadingAre(m, 4, 0) THEN <<206>> \o SubSeq(m, 5, 8)
    ELSE <<211>> \o m

\* rmp::encode::write_uint on the 8 big-endian bytes of the value: the
\* narrowest of positive fixint, uint8, uint16, uint32, uint64
write_uint(m) ==
    IF LeadingAre(m, 7, 0) /\ m[8] < 128 THEN <<m[8]>>
    ELSE IF LeadingAre(m, 7, 0) THEN <<204, m[8]>>
    ELSE IF LeadingAre(m, 6, 0) THEN <<205>> \o SubSeq(m, 7, 8)
    ELSE IF LeadingAre(m, 4, 0) THEN <<206>> \o SubSeq(m, 5, 8)
    ELSE <<207>> \o m

\* rmp::encode::write_sint on the 8 two's complement bytes of a negative
\* value: the narrowest of negative fixint, int8, int16, int32, int64
write_sint(t) ==
    IF LeadingAre(t, 7, 255) /\ t[8] >= 224 THEN <<t[8]>>
    ELSE IF LeadingAre(t, 7, 255) /\ t[8] >= 128 THEN <<208, t[8]>>
    ELSE IF LeadingAre(t, 6, 255) /\ t[7] >= 128 THEN <<209>> \o SubSeq(t, 7, 8)
    ELSE IF LeadingAre(t, 4, 255) /\ t[5] >= 128 THEN <<210>> \o SubSeq(t, 5, 8)
    ELSE <<211>> \o t

\* Number::serialize: serialize_u64 for a PosInt, serialize_i64 for a NegInt
write_number(v) ==
    IF v.neg THEN write_sint(Negated(to_be_bytes(v.digits, 8)))
    ELSE write_uint(to_be_bytes(v.digits, 8))

\* the header of a str, array or map of n elements (n < 2^16 here);
\* fix is the fix family's base and its capacity, wide the 8/16-bit tags
write_len(n, fixbase, fixmax, tag8, tag16) ==
    IF n <= fixmax THEN <<fixbase + n>>
    ELSE IF tag8 # 0 /\ n < 256 THEN <<tag8, n>>
    ELSE <<tag16, n \div 256, n % 256>>

RECURSIVE to_vec(_), to_vec_items(_), to_vec_entries(_)
\* rmp_serde::to_vec(&value)
to_vec(v) ==
    CASE v.t = "null"  -> <<192>>
      [] v.t = "bool"  -> (IF v.b THEN <<195>> ELSE <<194>>)
      [] v.t = "int"   -> write_number(v)
      [] v.t = "float" -> <<203>> \o v.bits
      [] v.t = "str"   -> write_len(StrLen(v.s), 160, 31, 217, 218) \o as_bytes(v.s)
      [] v.t = "arr"   -> write_len(Len(v.a), 144, 15, 0, 220) \o to_vec_items(v.a)
      [] v.t = "obj"   -> write_len(Len(v.o), 128, 15, 0, 222) \o to_vec_entries(v.o)

to_vec_items(a) == IF a = <<>> THEN <<>> ELSE to_vec(Head(a)) \o to_vec_items(Tail(a))

to_vec_entries(o) ==
    IF o = <<>> THEN <<>>
    ELSE to_vec(String(Head(o).k)) \o to_vec(Head(o).v) \o to_vec_entries(Tail(o))

\* the value of a hexadecimal digit, -1 for any other character
HexVal(c) ==
    IF c \in 48..57 THEN c - 48
    ELSE IF c \in 97..102 THEN c - 97 + 10
    ELSE IF c \in 65..70 THEN c - 65 + 10 ELSE -1

\* the value of the four hex digits at i of a \u escape, -1 if they are not
Hex4(t, i) ==
    IF i + 4 <= Len(t) /\ \A k \in 0..3 : HexVal(At(t, i + k)) >= 0
    THEN HexVal(At(t, i)) * 4096 + HexVal(At(t, i + 1)) * 256
           + HexVal(At(t, i + 2)) * 16 + HexVal(At(t, i + 3))
    ELSE -1

RECURSIVE JsonSkip(_, _)
\* serde_json skips space, \t, \n and \r between tokens
JsonSkip(t, i) ==
    IF i < Len(t) /\ At(t, i) \in {9, 10, 13, 32} THEN JsonSkip(t, i + 1) ELSE i

\* null, true, false
ParseIdent(t, i, lit, v) ==
    IF i + Len(lit) <= Len(t) /\ Slice(t, i, i + Len(lit)) = lit
    THEN Ok(v, i + Len(lit)) ELSE Err("ExpectedSomeIdent")

\* the character of a one-letter escape, -1 for an unknown letter
SimpleEscape(e) ==
    CASE e \in {Ch.quote, Ch.backslash, 47} -> e
      [] e = 98 -> 8
      [] e = 102 -> 12
      [] e = 110 -> 10
      [] e = 114 -> 13
      [] e = 116 -> 9
      [] OTHER -> -1

\* the escape whose letter is at i: [c |-> code point or -1, n |-> characters
\* of the escape after the backslash]; a \u escape of a leading surrogate
\* takes the trailing surrogate's escape with it
ParseEscape(t, i) ==
    IF i >= Len(t) THEN [c |-> -1, n |-> 0]
    ELSE IF At(t, i) # 117 THEN [c |-> SimpleEscape(At(t, i)), n |-> 1]
    ELSE IF Hex4(t, i + 1) \in 55296..56319 THEN
        IF i + 7 <= Len(t) /\ At(t, i + 5) = Ch.backslash /\ At(t, i + 6) = 117
             /\ Hex4(t, i + 7) \in 56320..57343
        THEN [c |-> 65536 + (Hex4(t, i + 1) - 55296) * 1024 + (Hex4(t, i + 7) - 56320),
              n |-> 11]
        ELSE [c |-> -1, n |-> 0]
    ELSE IF Hex4(t, i + 1) \in 56320..57343 THEN [c |-> -1, n |-> 0]
    ELSE [c |-> Hex4(t, i + 1), n |-> 5]

RECURSIVE ParseJsonString(_, _, _)
\* the string whose body starts at i: Ok(String, position after the quote)
ParseJsonString(t, i, acc) ==
    IF i >= Len(t) THEN Err("EofWhileParsingString")
    ELSE IF At(t, i) = Ch.quote THEN Ok(String(acc), i + 1)
    ELSE IF At(t, i) = Ch.backslash THEN
        IF ParseEscape(t, i + 1).c < 0 THEN Err("InvalidEscape")
        ELSE ParseJsonString(t, i + 1 + ParseEscape(t, i + 1).n,
                             Append(acc, ParseEscape(t, i + 1).c))
    ELSE IF At(t, i) < 32 THEN Err("ControlCharacterWhileParsingString")
    ELSE ParseJsonString(t, i + 1, Append(acc, At(t, i)))

RECURSIVE DigitsEnd(_, _)
\* position after the run of decimal digits at i
DigitsEnd(t, i) ==
    IF i < Len(t) /\ At(t, i) \in 48..57 THEN DigitsEnd(t, i + 1) ELSE i

\* a <= b on decimal digits without leading zeros
DecLeq(a, b) ==
    \/ Len(a) < Len(b)
    \/ /\ Len(a) = Len(b)
       /\ \/ a = b
          \/ \E i \in 1..Len(a) : a[i] < b[i] /\ \A j \in 1..i - 1 : a[j] = b[j]

U64MaxDigits == <<1, 8, 4, 4, 6, 7, 4, 4, 0, 7, 3, 7, 0, 9, 5, 5, 1, 6, 1, 5>>
NegZeroBits == <<128, 0, 0, 0, 0, 0, 0, 0>>

\* a number the parser holds as an f64 other than -0: its bits are not
\* evaluated
F64 == [st |-> "f64", value |-> Null, pos |-> 0, err |-> "none"]

\* the Number of an integer literal: a u64 when it is not negative and
\* fits, an i64 when it is negative and fits, else an f64 (-0 is -0.0)
JsonInteger(neg, digits, end) ==
    IF neg /\ digits = <<0>> THEN Ok(Float(NegZeroBits), end)
    ELSE IF DecLeq(digits, IF neg THEN I64MinDigits ELSE U64MaxDigits)
    THEN Ok(Number(neg, digits), end)
    ELSE F64

\* the number whose digits start at i (after the sign, if any)
ParseJsonDigits(t, neg, i, end) ==
    IF end = i THEN Err("InvalidNumber")
    ELSE IF At(t, i) = Ch.zero /\ end > i + 1 THEN Err("InvalidNumber")
    ELSE IF end < Len(t) /\ At(t, end) \in {Ch.dot, 101, 69} THEN F64
    ELSE JsonInteger(neg, [k \in 1..end - i |-> At(t, i + k - 1) - Ch.zero], end)

ParseJsonNumber(t, i) ==
    IF At(t, i) = Ch.minus THEN ParseJsonDigits(t, TRUE, i + 1, DigitsEnd(t, i + 1))
    ELSE ParseJsonDigits(t, FALSE, i, DigitsEnd(t, i))

\* Map::insert while parsing an object: key order is insertion order
JsonMapInsert(o, k, v) == MapInsert(o, k, v)

RECURSIVE ParseJson(_, _), ParseJsonArray(_, _, _, _), ParseJsonObject(_, _, _, _)
RECURSIVE JsonArrayPush(_, _, _), JsonEntryKey(_, _, _), JsonEntryValue(_, _, _)
RECURSIVE JsonEntryStore(_, _, _, _)
\* the value at i, white space already skipped
ParseJson(t, i) ==
    IF i >= Len(t) THEN Err("EofWhileParsingValue")
    ELSE CASE At(t, i) = 110 -> ParseIdent(t, i, Lit.null, Null)
           [] At(t, i) = 116 -> ParseIdent(t, i, Lit.true, Bool(TRUE))
           [] At(t, i) = 102 -> ParseIdent(t, i, Lit.false, Bool(FALSE))
           [] At(t, i) = Ch.quote -> ParseJsonString(t, i + 1, <<>>)
           [] At(t, i) = Ch.minus \/ At(t, i) \in 48..57 -> ParseJsonNumber(t, i)
           [] At(t, i) = Ch.lbracket -> ParseJsonArray(t, JsonSkip(t, i + 1), <<>>, TRUE)
           [] At(t, i) = Ch.lbrace -> ParseJsonObject(t, JsonSkip(t, i + 1), <<>>, TRUE)
           [] OTHER -> Err("ExpectedSomeValue")

\* at i, white space skipped: the rest of an array after acc
ParseJsonArray(t, i, acc, first) ==
    IF i >= Len(t) THEN Err("EofWhileParsingList")
    ELSE IF At(t, i) = Ch.rbracket THEN Ok(Array(acc), i + 1)
    ELSE IF first THEN JsonArrayPush(t, ParseJson(t, i), acc)
    ELSE IF At(t, i) # Ch.comma THEN Err("ExpectedListCommaOrEnd")
    ELSE IF JsonSkip(t, i + 1) < Len(t) /\ At(t, JsonSkip(t, i + 1)) = Ch.rbracket
    THEN Err("TrailingComma")
    ELSE JsonArrayPush(t, ParseJson(t, JsonSkip(t, i + 1)), acc)

JsonArrayPush(t, r, acc) ==
    IF r.st # "ok" THEN r
    ELSE ParseJsonArray(t, JsonSkip(t, r.pos), Append(acc, r.value), FALSE)

\* at i, white space skipped: the rest of an object after acc
ParseJsonObject(t, i, acc, first) ==
    IF i >= Len(t) THEN Err("EofWhileParsingObject")
    ELSE IF At(t, i) = Ch.rbrace THEN Ok(Object(acc), i + 1)
    ELSE IF first THEN JsonEntryKey(t, i, acc)
    ELSE IF At(t, i) # Ch.comma THEN Err("ExpectedObjectCommaOrEnd")
    ELSE IF JsonSkip(t, i + 1) < Len(t) /\ At(t, JsonSkip(t, i + 1)) = Ch.rbrace
    THEN Err("TrailingComma")
    ELSE JsonEntryKey(t, JsonSkip(t, i + 1), acc)

\* the key at i, its colon and its value
JsonEntryKey(t, i, acc) ==
    IF i >= Len(t) THEN Err("EofWhileParsingObject")
    ELSE IF At(t, i) # Ch.quote THEN Err("KeyMustBeAString")
    ELSE JsonEntryValue(t, ParseJsonString(t, i + 1, <<>>), acc)

JsonEntryValue(t, k, acc) ==
    IF k.st # "ok" THEN k
    ELSE IF JsonSkip(t, k.pos) >= Len(t) THEN Err("EofWhileParsingObject")
    ELSE IF At(t, JsonSkip(t, k.pos)) # Ch.colon THEN Err("ExpectedColon")
    ELSE JsonEntryStore(t, k.value.s, ParseJson(t, JsonSkip(t, JsonSkip(t, k.pos) + 1)), acc)

JsonEntryStore(t, key, r, acc) ==
    IF r.st # "ok" THEN r
    ELSE ParseJsonObject(t, JsonSkip(t, r.pos), JsonMapInsert(acc, key, r.value), FALSE)

\* serde_json::from_str::<Value>(text): the whole text is one value
from_str_end(t, r) ==
    IF r.st # "ok" THEN r
    ELSE IF JsonSkip(t, r.pos) < Len(t) THEN Err("TrailingCharacters")
    ELSE r

from_str(t) == from_str_end(t, ParseJson(t, JsonSkip(t, 0)))

RECURSIVE trim_start(_)
trim_start(s) == IF s # <<>> /\ is_whitespace(Head(s)) THEN trim_start(Tail(s)) ELSE s

RECURSIVE trim_end(_)
trim_end(s) ==
    IF s # <<>> /\ is_whitespace(s[Len(s)]) THEN trim_end(SubSeq(s, 1, Len(s) - 1)) ELSE s

\* str::trim()
trim(s) == trim_end(trim_start(s))

\* the two revisions of converter.rs: src_rust/ takes its argument as it
\* is, src/ trims it first
Revisions == {"src_rust", "src"}
Arg(rev, s) == IF rev = "src" THEN trim(s) ELSE s

\* Result<String, String> of a converter; "panic" when the call unwinds and
\* "f64" when the text holds a number that is parsed to an f64
COk(out) == [st |-> "ok", out |-> out]
CErr(msg) == [st |-> "err", out |-> msg]
CPanic == [st |-> "panic", out |-> "byte index is not a char boundary"]

\* rmp_serde::from_slice::<Value>(&bytes): map keys are strings and there
\* is no bin; bytes after the value are not read
from_slice(bytes) ==
    IF parse_msgpack_value(bytes, 0).st # "ok" THEN Err("decode")
    ELSE IF \E i \in 1..Len(Items(bytes)) :
              \/ IsBinTag(Items(bytes)[i].tag)
              \/ Items(bytes)[i].role = "Key" /\ ~IsStrTag(Items(bytes)[i].tag)
    THEN Err("invalid type")
    ELSE parse_msgpack_value(bytes, 0)

json_of_value(r) ==
    IF r.st # "ok" THEN CErr("Failed to decode msgpack") ELSE COk(to_string_pretty(r.value))

msgpack_of_base64(d) ==
    IF ~d.ok THEN CErr("Failed to decode base64") ELSE json_of_value(from_slice(d.bytes))

\* msgpack_to_json(base64_string)
msgpack_to_json(rev, base64_string) ==
    msgpack_of_base64(STANDARD_decode(Arg(rev, base64_string)))

base64_of_value(r) ==
    IF r.st = "err" THEN CErr("Failed to parse JSON")
    ELSE IF r.st = "f64" THEN [st |-> "f64", out |-> <<>>]
    ELSE COk(STANDARD_encode(to_vec(r.value)))

\* json_to_msgpack(json_string)
json_to_msgpack(rev, json_string) == base64_of_value(from_str(Arg(rev, json_string)))

hex_of_decoded(d) ==
    IF ~d.ok THEN CErr("Invalid Base64 string") ELSE COk(bytes_to_hex(d.bytes))

\* base64_to_hex(base64_string)
base64_to_hex(rev, base64_string) == hex_of_decoded(STANDARD_decode(Arg(rev, base64_string)))

\* hex_string.chars().filter(|c| !c.is_whitespace()).collect(), which is
\* also hex_str.split_whitespace().collect()
RECURSIVE clean_hex(_)
clean_hex(s) ==
    IF s = <<>> THEN <<>>
    ELSE IF is_whitespace(Head(s)) THEN clean_hex(Tail(s))
    ELSE <<Head(s)>> \o clean_hex(Tail(s))

\* u8::from_str_radix(pair, 16) of two one-byte characters: a leading '+'
\* is a sign; -1 for an error
from_str_radix(c1, c2) ==
    IF c1 = 43 THEN HexVal(c2)
    ELSE IF HexVal(c1) < 0 \/ HexVal(c2) < 0 THEN -1
    ELSE HexVal(c1) * 16 + HexVal(c2)

RECURSIVE HexPairs(_, _)
\* the bytes of the pairs of ASCII hex digits cs
HexPairs(cs, acc) ==
    IF cs = <<>> THEN acc
    ELSE HexPairs(SubSeq(cs, 3, Len(cs)), Append(acc, from_str_radix(cs[1], cs[2])))

\* src_rust/converter.rs: every character is checked before the pairs are
\* parsed
hex_to_base64_rust(clean) ==
    IF clean = <<>> THEN COk(<<>>)
    ELSE IF StrLen(clean) % 2 # 0 THEN CErr("Hex string must have an even number of characters")
    ELSE IF \E i \in 1..Len(clean) : clean[i] >= 128 \/ HexVal(clean[i]) < 0
    THEN CErr("Invalid hex characters")
    ELSE COk(STANDARD_encode(HexPairs(clean, <<>>)))

RECURSIVE HexLoop(_, _)
\* src/converter.rs: the loop over byte offsets i, i + 2 of clean_hex; cs
\* is the text from byte offset i on.  &clean_hex[i..i + 2] panics when
\* i + 2 falls inside a character.
HexLoop(cs, acc) ==
    IF cs = <<>> THEN COk(STANDARD_encode(acc))
    ELSE IF Utf8Len(cs[1]) = 2 THEN CErr("Invalid hex characters")
    ELSE IF Utf8Len(cs[1]) > 2 \/ Utf8Len(cs[2]) > 1 THEN CPanic
    ELSE IF from_str_radix(cs[1], cs[2]) < 0 THEN CErr("Invalid hex characters")
    ELSE HexLoop(SubSeq(cs, 3, Len(cs)), Append(acc, from_str_radix(cs[1], cs[2])))

hex_to_base64_src(clean) ==
    IF clean = <<>> THEN COk(<<>>)
    ELSE IF StrLen(clean) % 2 # 0 THEN CErr("Hex string must have an even number of characters")
    ELSE HexLoop(clean, <<>>)

\* hex_to_base64(hex_string)
hex_to_base64(rev, hex_string) ==
    IF rev = "src" THEN hex_to_base64_src(clean_hex(hex_string))
    ELSE hex_to_base64_rust(clean_hex(hex_string))

\* one character of escape_html: the five replacements, & first
EscapeHtmlChar(c) ==
    CASE c = 38 -> <<38, 97, 109, 112, 59>>
      [] c = 60 -> <<38, 108, 116, 59>>
      [] c = 62 -> <<38, 103, 116, 59>>
      [] c = 34 -> <<38, 113, 117, 111, 116, 59>>
      [] c = 39 -> <<38, 35, 48, 51, 57, 59>>
      [] OTHER -> <<c>>

RECURSIVE escape_html(_)
escape_html(text) ==
    IF text = <<>> THEN <<>> ELSE EscapeHtmlChar(Head(text)) \o escape_html(Tail(text))

RECURSIVE CharsFrom(_, _, _)
\* n plus the number of characters before byte offset k of a text, -1 when
\* k is not a character boundary of it
CharsFrom(text, k, n) ==
    IF k = 0 THEN n
    ELSE IF text = <<>> THEN -1
    ELSE IF Utf8Len(Head(text)) > k THEN -1
    ELSE CharsFrom(Tail(text), k - Utf8Len(Head(text)), n + 1)

\* the character index of byte offset k, -1 when is_char_boundary(k) is
\* false
CharsBefore(text, k) == CharsFrom(text, k, 0)

\* &code[from..to] on byte offsets that are character boundaries
ByteSlice(code, from, to) == Slice(code, CharsBefore(code, from), CharsBefore(code, to))

\* <span class="hex-highlight"> and </span>
SpanOpen ==
    <<60, 115, 112, 97, 110, 32, 99, 108, 97, 115, 115, 61, 34, 104, 101, 120, 45, 104, 105,
      103, 104, 108, 105, 103, 104, 116, 34, 62>>
SpanClose == <<60, 47, 115, 112, 97, 110, 62>>

\* the three escaped parts around the span
Highlighted(code, char_start, char_end) ==
    escape_html(ByteSlice(code, 0, char_start)) \o SpanOpen
      \o escape_html(ByteSlice(code, char_start, char_end)) \o SpanClose
      \o escape_html(ByteSlice(code, char_end, StrLen(code)))

\* highlight_hex(code, highlight_range): code.len() and the slices count
\* bytes; a slice off a character boundary panics
highlight_hex(code, highlight_range) ==
    IF code = <<>> THEN COk(<<>>)
    ELSE IF ~highlight_range.some THEN COk(escape_html(code))
    ELSE IF highlight_range.start > highlight_range.end
              \/ highlight_range.end > StrLen(code)
    THEN COk(escape_html(code))
    ELSE IF CharsBefore(code, highlight_range.start) < 0
              \/ CharsBefore(code, highlight_range.end) < 0
    THEN CPanic
    ELSE COk(Highlighted(code, highlight_range.start, highlight_range.end))

(***************************************************************************)
(* State machine: one conversion session over a buffer and a text.         *)
(***************************************************************************)
VARIABLES
    data,         \* the MessagePack buffer
    json_string,  \* the JSON text
    canonical,    \* json_string is the canonical text of data
    pc,           \* "start", "parsed", "mapped", "selected", "ranged"
    parse_pos,    \* start position given to parse_msgpack_value
    parsed,       \* its result
    walk,         \* how build_mappings ended: "none", "ok", "err", "panic"
    mappings,     \* the vector returned by create_position_mappings
    selection,    \* <<json_sel_start, json_sel_end>>
    hex_range,    \* result of find_hex_range_for_json_selection
    byte_range,   \* <<hex_start, hex_end>> given to byte_range_to_hex_char_range
    char_range,   \* its result
    built,        \* how build_mappings ended from parse_pos: [st, hex_pos]
    conv,         \* a session of the converters: text, calls made, their results
    ui            \* the signals of the page, the last event and selection

vars == <<data, json_string, canonical, pc, parse_pos, parsed, walk, mappings,
          selection, hex_range, byte_range, char_range, built, conv, build, ui>>

\* the format bytes of no family (0xc1, ext 8/16/32, fixext 1..16), alone,
\* as the element of an array and after a walked key
UnknownSamples ==
    UNION { {<<b>>, <<145, b>>, <<129, 161, 97, b>>} : b \in {193} \cup 199..201 \cup 212..216 }

AllBuffers == StructuredBuffers \cup TruncatedBuffers \cup RawBuffers \cup UnknownSamples

TextsFor(d) ==
    (IF Decodes(d) THEN {CanonicalText(d)} ELSE {})
      \cup (IF d \in StructuredBuffers THEN {<<>>} ELSE UnrelatedTexts)

NotBuilt == [st |-> "none", hex_pos |-> 0]
\* the signals when App is mounted; event is the last event handled,
\* selection the last selection the JSON editor reported, crashed is set
\* when a handler panicked
Fresh ==
    [ msgpack_base64 |-> <<>>, msgpack_hex |-> <<>>, json_input |-> <<>>, error |-> "",
      hex_highlight_range |-> None, event |-> "mount", selection |-> None,
      crashed |-> FALSE ]

NoConv == [rev |-> "src", origin |-> <<>>, ops |-> <<>>, results |-> <<>>, range |-> None]

NoResults ==
    /\ parse_pos = 0
    /\ parsed = Err("none")
    /\ walk = "none"
    /\ mappings = <<>>
    /\ selection = <<0, 0>>
    /\ hex_range = None
    /\ byte_range = <<0, 0>>
    /\ char_range = [char_start |-> 0, char_end |-> 0]
    /\ built = NotBuilt

\* a str 32 or bin 32 tag before a byte that would head a length of 2^31 or more
HasWordLength(d) ==
    \E i \in 1..Len(d) - 1 : d[i] \in {198, 219} /\ d[i + 1] >= 128

\* the builds differ only on a 32-bit length that overflows the sum: any
\* other buffer is decoded under one of them
BuildsFor(d) == IF HasWordLength(d) THEN Builds ELSE {"wasm32_release"}

Init ==
    /\ ui = Fresh
    /\ data \in AllBuffers
    /\ build \in BuildsFor(data)
    /\ json_string \in TextsFor(data)
    /\ canonical = (Decodes(data) /\ json_string = CanonicalText(data))
    /\ pc = "start"
    /\ NoResults
    /\ conv = NoConv

\* parse_msgpack_value(&data, pos)
ParseMsgpackValue(pos) ==
    /\ pc = "start"
    /\ parse_pos' = pos
    /\ parsed' = parse_msgpack_value(data, pos)
    /\ pc' = "parsed"
    /\ UNCHANGED <<ui, build, conv, built, data, json_string, canonical, walk, mappings, selection, hex_range,
                   byte_range, char_range>>

BuildResult(r) == [st |-> r.st, hex_pos |-> r.hex]

\* build_mappings(&data, &json_string, &mut mappings, pos, 0) from the
\* position parse_msgpack_value was given
BuildMappings ==
    /\ pc = "parsed"
    /\ built' = BuildResult(build_mappings(data, json_string, <<>>, parse_pos, 0))
    /\ pc' = "built"
    /\ UNCHANGED <<ui, build, conv, data, json_string, canonical, parse_pos, parsed, walk, mappings,
                   selection, hex_range, byte_range, char_range>>

\* create_position_mappings(&data, &json_string)
CreatePositionMappings ==
    /\ pc = "start"
    /\ walk' = build_mappings(data, json_string, <<>>, 0, 0).st
    /\ mappings' = create_position_mappings(data, json_string).mappings
    /\ pc' = "mapped"
    /\ UNCHANGED <<ui, build, conv, built, data, json_string, canonical, parse_pos, parsed, selection, hex_range,
                   byte_range, char_range>>

\* the text spans of a list of literals or of mappings
SpansOf(lits) == {<<lits[i].js, lits[i].je>> : i \in 1..Len(lits)}

\* selections offered to the resolver: every short range of the text, the
\* text span of every literal and the text span of every mapping
Selections ==
    {<<s, e>> \in (0..Len(json_string)) \X (1..Len(json_string) + 1) :
        s < e /\ e - s <= MaxSelLen}
      \cup SpansOf(Literals(json_string))
      \cup {<<mappings[i].json_start, mappings[i].json_end>> : i \in 1..Len(mappings)}

\* find_hex_range_for_json_selection(&mappings, s, e)
FindHexRange(s, e) ==
    /\ pc = "mapped"
    /\ walk # "panic"
    /\ selection' = <<s, e>>
    /\ hex_range' = find_hex_range_for_json_selection(mappings, s, e)
    /\ pc' = "selected"
    /\ UNCHANGED <<ui, build, conv, built, data, json_string, canonical, parse_pos, parsed, walk, mappings,
                   byte_range, char_range>>

\* byte_range_to_hex_char_range(byte_range.0, byte_range.1) on the resolved range
HighlightResolved ==
    /\ pc = "selected"
    /\ hex_range.some
    /\ byte_range' = <<hex_range.start, hex_range.end>>
    /\ char_range' = byte_range_to_hex_char_range(hex_range.start, hex_range.end)
    /\ pc' = "ranged"
    /\ UNCHANGED <<ui, build, conv, built, data, json_string, canonical, parse_pos, parsed, walk, mappings,
                   selection, hex_range>>

\* byte_range_to_hex_char_range(b, e) on any non-empty range of the buffer
ByteRangeToHexCharRange(b, e) ==
    /\ pc = "start"
    /\ b < e
    /\ byte_range' = <<b, e>>
    /\ char_range' = byte_range_to_hex_char_range(b, e)
    /\ pc' = "ranged"
    /\ UNCHANGED <<ui, build, conv, built, data, json_string, canonical, parse_pos, parsed, walk, mappings,
                   selection, hex_range>>

\* the selection changes in the JSON editor
SelectText ==
    /\ pc = "mapped"
    /\ \E sel \in Selections : FindHexRange(sel[1], sel[2])

Next ==
    \/ \E pos \in 0..Len(data) + 1 : ParseMsgpackValue(pos)
    \/ BuildMappings
    \/ CreatePositionMappings
    \/ SelectText
    \/ HighlightResolved
    \/ \E b \in 0..Len(data), e \in 0..Len(data) : ByteRangeToHexCharRange(b, e)

Spec == Init /\ [][Next]_vars

(***************************************************************************)
(* Properties                                                              *)
(***************************************************************************)
Mapped == pc = "mapped"

RECURSIVE EntriesFrom(_, _, _)
\* the entries of a map as key and value byte spans; the buffer decodes
EntriesFrom(d, pos, count) ==
    IF count = 0 THEN <<>>
    ELSE LET ke == parse_msgpack_value(d, pos).pos
             ve == parse_msgpack_value(d, ke).pos
         IN  <<[ks |-> pos, ke |-> ke, vs |-> ke, ve |-> ve]>> \o EntriesFrom(d, ve, count - 1)

MapEntries(d) == EntriesFrom(d, 1 + CountWidth(At(d, 0)), ChildCount(d, 0))

IsScalarTag(b) == ~IsContainerTag(b) /\ ~IsBinTag(b)

\* a map whose entries have string keys and scalar values
IsScalarMap(d) ==
    /\ Decodes(d)
    /\ IsMapTag(At(d, 0))
    /\ \A i \in 1..Len(MapEntries(d)) :
          /\ IsStrTag(At(d, MapEntries(d)[i].ks))
          /\ IsScalarTag(At(d, MapEntries(d)[i].vs))

\* no map entry was replaced by a later entry with the same key: the text
\* shows as many literals as the buffer has items
NoEntryCollapsed(d) == Len(Literals(CanonicalText(d))) = Len(Items(d))

\* C1: create_position_mappings on a map (fixmap, map16 or map32) whose n
\* entries have string keys and scalar values, given the canonical pretty
\* text of that map, returns exactly 2n mappings: for each entry in byte
\* order a Key mapping over exactly the key's encoding, followed by a Value
\* mapping over exactly the value's encoding.
C1_ScalarMapMappings ==
    (Mapped /\ canonical /\ IsScalarMap(data) /\ NoEntryCollapsed(data)) =>
        LET es == MapEntries(data)
        IN  /\ walk = "ok"
            /\ Len(mappings) = 2 * Len(es)
            /\ \A i \in 1..Len(es) :
                  /\ mappings[2 * i - 1].mapping_type = "Key"
                  /\ mappings[2 * i - 1].hex_start = es[i].ks
                  /\ mappings[2 * i - 1].hex_end = es[i].ke
                  /\ mappings[2 * i].mapping_type = "Value"
                  /\ mappings[2 * i].hex_start = es[i].vs
                  /\ mappings[2 * i].hex_end = es[i].ve

NoBinItems(d) == \A i \in 1..Len(Items(d)) : ~IsBinTag(Items(d)[i].tag)

\* C2: on nested arrays and maps with their canonical pretty text,
\* create_position_mappings returns exactly one Value mapping per scalar
\* leaf and one Key mapping per map key, in byte order, and no mapping for
\* the containers themselves, empty ones included.
C2_OneMappingPerItem ==
    (Mapped /\ canonical /\ NoBinItems(data) /\ NoEntryCollapsed(data)) =>
        /\ walk = "ok"
        /\ Len(mappings) = Len(Items(data))
        /\ \A i \in 1..Len(mappings) :
              /\ mappings[i].mapping_type = Items(data)[i].role
              /\ mappings[i].hex_start = Items(data)[i].hs
              /\ mappings[i].hex_end = Items(data)[i].he

IsAscii(str) == \A i \in 1..Len(str) : str[i] < 128

\* built from integers, booleans, nil, ASCII strings, arrays and
\* string-keyed maps
IsPlain(d) ==
    /\ Decodes(d)
    /\ \A i \in 1..Len(Items(d)) :
          LET it == Items(d)[i]
          IN  /\ it.role = "Key" => IsStrTag(it.tag)
              /\ IsIntTag(it.tag) \/ it.tag \in {192, 194, 195} \/ IsStrTag(it.tag)
              /\ IsStrTag(it.tag) => IsAscii(parse_msgpack_value(d, it.hs).value.s)

\* the literal that the JSON text shows for the key or scalar encoded at pos
RenderedLiteral(d, pos, role) ==
    LET v == parse_msgpack_value(d, pos).value
    IN  IF role = "Key" THEN JsonStringLiteral(IF v.t = "str" THEN v.s ELSE ToJson(v))
        ELSE ToJson(v)

\* the text span of mapping m shows exactly the literal of the item encoded
\* in its byte span
TextSpanExact(m) ==
    /\ parse_msgpack_value(data, m.hex_start).st = "ok"
    /\ parse_msgpack_value(data, m.hex_start).pos = m.hex_end
    /\ m.json_start <= m.json_end
    /\ m.json_end <= Len(json_string)
    /\ Slice(json_string, m.json_start, m.json_end)
          = RenderedLiteral(data, m.hex_start, m.mapping_type)

\* C3: for a buffer built from integers, booleans, nil, ASCII strings,
\* arrays and string-keyed maps and the canonical pretty text of its decoded
\* value, the text span of every mapping holds exactly the rendered literal
\* of the key or scalar encoded in the mapping's byte span.
C3_TextSpansExact ==
    (Mapped /\ canonical /\ IsPlain(data)) =>
        \A i \in 1..Len(mappings) : TextSpanExact(mappings[i])

Selected == pc = "selected"

\* the selection lies in the text and touches no literal
OnlyPunctuation(sel) ==
    /\ sel[1] < sel[2]
    /\ sel[2] <= Len(json_string)
    /\ \A i \in 1..Len(Literals(json_string)) :
          Literals(json_string)[i].je <= sel[1] \/ sel[2] <= Literals(json_string)[i].js

\* C4: on canonical text, a selection equal to the text span of one key or
\* scalar literal resolves to exactly that item's byte span, and a non-empty
\* selection covering only brackets, commas, colons or whitespace resolves
\* to None.
C4_SelectionResolves ==
    (Selected /\ canonical /\ NoEntryCollapsed(data)) =>
        /\ \A i \in 1..Len(Items(data)) :
              selection = <<Literals(json_string)[i].js, Literals(json_string)[i].je>>
                  => hex_range = Some(Items(data)[i].hs, Items(data)[i].he)
        /\ OnlyPunctuation(selection) => hex_range = None

\* C5: find_hex_range_for_json_selection(mappings, s, e), for any list of
\* mappings and any s, e, returns None exactly when no mapping m has
\* m.json_start < e and m.json_end > s; otherwise it returns the smallest
\* byte span containing the byte span of every overlapping mapping:
\* (minimum hex_start, maximum hex_end) over exactly those mappings.
C5_ResolverUnion ==
    Selected =>
        LET O == {i \in 1..Len(mappings) :
                    mappings[i].json_start < selection[2] /\ mappings[i].json_end > selection[1]}
        IN  /\ hex_range.some <=> O # {}
            /\ hex_range.some =>
                  /\ \A i \in O : /\ hex_range.start <= mappings[i].hex_start
                                  /\ mappings[i].hex_end <= hex_range.end
                  /\ \E i \in O : mappings[i].hex_start = hex_range.start
                  /\ \E i \in O : mappings[i].hex_end = hex_range.end

\* one mapping overlaps the selection, another one ends where the selection
\* starts and begins at an earlier byte: it stays out of the result
C5_Witness ==
    /\ Selected
    /\ selection[1] < selection[2]
    /\ \E i, j \in 1..Len(mappings) :
          /\ mappings[i].json_start < selection[2] /\ mappings[i].json_end > selection[1]
          /\ mappings[j].json_start < mappings[j].json_end
          /\ mappings[j].json_end = selection[1]
          /\ mappings[j].hex_start < mappings[i].hex_start
          /\ hex_range = Some(mappings[i].hex_start, mappings[i].hex_end)

Ranged == pc = "ranged"

\* C6: byte_range_to_hex_char_range(b, e) returns (3*b, 3*e - 1), and for a
\* buffer of length n and 0 <= b < e <= n the characters [3b, 3e-1) of the
\* space-separated hex rendering are exactly the two-digit renderings of
\* bytes b..e-1 joined by single spaces, without leading or trailing space.
C6_HexCharRange ==
    (Ranged /\ byte_range[1] < byte_range[2] /\ byte_range[2] <= Len(data)) =>
        LET hex == bytes_to_hex(data)
            b == byte_range[1]
            e == byte_range[2]
        IN  /\ char_range.char_start = 3 * b
            /\ char_range.char_end = 3 * e - 1
            /\ char_range.char_end <= Len(hex)
            /\ Slice(hex, char_range.char_start, char_range.char_end)
                  = bytes_to_hex(SubSeq(data, b + 1, e))
            /\ At(hex, char_range.char_start) # Ch.space
            /\ At(hex, char_range.char_end - 1) # Ch.space

\* bytes 1..2 of a buffer of at least four bytes: characters [3, 8)
C6_Witness ==
    /\ Ranged
    /\ Len(data) >= 4
    /\ byte_range = <<1, 3>>
    /\ char_range = [char_start |-> 3, char_end |-> 8]

\* C7: whenever build_mappings fails with a truncation or decode error,
\* also after some keys or leaves have been walked, create_position_mappings
\* returns an empty mapping list.
C7_EmptyOnError == (Mapped /\ walk = "err") => mappings = <<>>

\* C8: create_position_mappings never fails: for every buffer and every
\* text it returns a possibly empty list and never panics or indexes outside
\* the buffer or the text.
C8_NeverPanics == Mapped => walk # "panic"

\* width of the length field of a variable-length payload format
LengthWidth(b) ==
    IF b \in 160..191 THEN 0
    ELSE IF b \in {217, 196} THEN 1
    ELSE IF b \in {218, 197} THEN 2
    ELSE 4

\* the value at pos is a string or binary whose length field is complete
\* and declares more payload bytes than remain in the buffer
PayloadExceeds(d, pos) ==
    /\ pos < Len(d)
    /\ IsStrTag(At(d, pos)) \/ IsBinTag(At(d, pos))
    /\ LET lw == LengthWidth(At(d, pos))
           length == IF lw = 0 THEN At(d, pos) % 32
                     ELSE LengthOf(Slice(d, pos + 1, Min2(pos + 1 + lw, Len(d))))
       IN  /\ pos + 1 + lw <= Len(d)
           /\ pos + 1 + lw + length > Len(d)

\* C9: for every variable-length payload format (fixstr, str8/16/32,
\* bin8/16/32), when the declared payload length exceeds the bytes remaining,
\* parse_msgpack_value and build_mappings return a truncation error and never
\* slice or index past the end of the buffer.
C9_PayloadTruncation ==
    /\ (pc = "parsed" /\ PayloadExceeds(data, parse_pos)) =>
          (parsed.st = "err" /\ parsed.err \in {"TruncatedString", "TruncatedBinary"})
    /\ (Mapped /\ PayloadExceeds(data, 0)) => walk = "err"

\* bytes that must follow the tag of a fixed-width format or of a format
\* with a length or count field; 0 for the other tags
FieldWidth(b) ==
    IF b \in {204, 208, 217, 196} THEN 1
    ELSE IF b \in {205, 209, 218, 197, 220, 222} THEN 2
    ELSE IF b \in {202, 206, 210, 219, 198, 221, 223} THEN 4
    ELSE IF b \in {203, 207, 211} THEN 8
    ELSE 0

FieldTruncated(d, pos) ==
    \/ pos >= Len(d)
    \/ /\ FieldWidth(At(d, pos)) > 0
       /\ pos + 1 + FieldWidth(At(d, pos)) > Len(d)

\* C10: for every fixed-width format and every length-prefix field, when
\* fewer bytes follow the tag than the field width requires (also when the
\* tag is the last byte, or the start position is at or past the end),
\* parse_msgpack_value returns an error and reads no byte outside the buffer.
C10_FieldTruncation ==
    (pc = "parsed" /\ FieldTruncated(data, parse_pos)) =>
        (parsed.st = "err" /\ parsed.err \in {"UnexpectedEnd", "UnexpectedEndAt", "TruncatedData"})

\* a float64 tag inside the buffer followed by one to seven bytes
C10_Witness ==
    /\ pc = "parsed"
    /\ parse_pos > 0
    /\ parse_pos + 1 < Len(data)
    /\ At(data, parse_pos) = 203
    /\ Len(data) - parse_pos - 1 < 8
    /\ parsed.st = "err"

\* the format bytes that belong to no family of the dispatch table
UnknownTags == {193} \cup 199..201 \cup 212..216

\* the type of value each scalar family decodes to
FamilyType(b) ==
    IF IsIntTag(b) THEN "int"
    ELSE IF b \in {202, 203} THEN "float"
    ELSE IF IsStrTag(b) THEN "str"
    ELSE IF b \in {194, 195} THEN "bool"
    ELSE "null"

\* a float tag at pos whose payload is NaN or an infinity: the number 0
NonFiniteAt(d, pos) ==
    /\ At(d, pos) \in {202, 203}
    /\ ~FloatIsFinite(Slice(d, pos + 1, pos + 1 + (IF At(d, pos) = 202 THEN 4 ELSE 8)))

\* C11: parse_msgpack_value reports the unknown-format error exactly when
\* the leading byte of the value being decoded matches no family of the
\* dispatch table (0xc1, 0xc7-0xc9, 0xd4-0xd8); for a leading byte of a
\* listed family the error is never about that byte (a container reports it
\* only for a byte of one of its children), and with enough bytes present a
\* scalar family returns a value of its type (the number 0 for a float that
\* is not finite).
C11_UnknownFormat ==
    (pc = "parsed" /\ parse_pos < Len(data)) =>
        LET b == At(data, parse_pos)
        IN  /\ b \in UnknownTags => parsed = Err("UnknownFormat")
            /\ (b \notin UnknownTags /\ parsed.st = "err" /\ parsed.err = "UnknownFormat") =>
                  /\ IsContainerTag(b)
                  /\ \E q \in parse_pos + 1..Len(data) - 1 : At(data, q) \in UnknownTags
            /\ (b \notin UnknownTags /\ ~IsContainerTag(b)
                  /\ ~FieldTruncated(data, parse_pos) /\ ~PayloadExceeds(data, parse_pos)) =>
                  /\ parsed.st = "ok"
                  /\ parsed.value.t = (IF IsBinTag(b) THEN "null"
                                        ELSE IF NonFiniteAt(data, parse_pos) THEN "int"
                                        ELSE FamilyType(b))

\* a fixext tag inside an array, decoded from its own position, and the
\* array around it decoded from position 0
C11_Witness ==
    /\ pc = "parsed"
    /\ Len(data) = 2
    /\ At(data, 0) = 145
    /\ At(data, 1) \in 212..216
    /\ parse_pos = 1
    /\ parsed = Err("UnknownFormat")

\* the string encoded by item it of the buffer
ItemString(d, it) == parse_msgpack_value(d, it.hs).value.s

\* C15: text spans are character offsets: on canonical text, for a string
\* leaf or key whose text holds non-ASCII characters, json_end - json_start
\* is the number of characters of its JSON string literal, and the text
\* span of every later mapping starts at the character offset of its own
\* literal in the text.
C15_CharacterOffsets ==
    (Mapped /\ canonical /\ NoBinItems(data) /\ NoEntryCollapsed(data)) =>
        \A i \in 1..Len(Items(data)) :
            (IsStrTag(Items(data)[i].tag) /\ ~IsAscii(ItemString(data, Items(data)[i]))) =>
                /\ Len(mappings) = Len(Items(data))
                /\ mappings[i].json_end - mappings[i].json_start
                      = Len(JsonStringLiteral(ItemString(data, Items(data)[i])))
                /\ \A j \in i + 1..Len(mappings) :
                      mappings[j].json_start = Literals(json_string)[j].js

\* mapping m has the text span of literal l
SpanIs(m, l) == m.json_start = l.js /\ m.json_end = l.je

\* C20: on canonical text, for a map entry whose key is not a string (an
\* integer, nil, a boolean, a float), the Key mapping's text span covers the
\* whole quoted key literal of the text (the stringified key and both
\* quotes), and the Value mapping that follows covers exactly the value's
\* literal.
C20_NonStringKeys ==
    (Mapped /\ canonical /\ NoBinItems(data) /\ NoEntryCollapsed(data)) =>
        \A i \in 1..Len(Items(data)) :
            (Items(data)[i].role = "Key" /\ ~IsStrTag(Items(data)[i].tag)) =>
                /\ Len(mappings) = Len(Items(data))
                /\ mappings[i].mapping_type = "Key"
                /\ SpanIs(mappings[i], Literals(json_string)[i])
                /\ (i < Len(mappings) /\ Items(data)[i + 1].hs = Items(data)[i].he) =>
                      /\ mappings[i + 1].mapping_type = "Value"
                      /\ SpanIs(mappings[i + 1], Literals(json_string)[i + 1])

Built == pc = "built"

\* C17: for every buffer, start position and text, build_mappings succeeds
\* if and only if parse_msgpack_value succeeds from the same position, and
\* then the byte end position it returns is the new_pos of
\* parse_msgpack_value, whatever the text is.
C17_SameByteConsumption ==
    Built =>
        /\ (built.st = "ok") <=> (parsed.st = "ok")
        /\ built.st = "ok" => built.hex_pos = parsed.pos

\* a str8 inside an array, walked from its own position against a text that
\* is not the text of the buffer
C17_Witness ==
    /\ Built
    /\ ~canonical
    /\ parse_pos > 0
    /\ parse_pos < Len(data)
    /\ At(data, parse_pos) = 217
    /\ built.st = "ok"
    /\ built.hex_pos = parsed.pos

\* a list was returned: the walk did not unwind
Returned == Mapped /\ walk # "panic"

IsPlainWithBin(d) ==
    /\ Decodes(d)
    /\ \A i \in 1..Len(Items(d)) :
          \/ IsBinTag(Items(d)[i].tag) /\ Items(d)[i].role = "Value"
          \/ /\ Items(d)[i].role = "Key" => IsStrTag(Items(d)[i].tag)
             /\ \/ IsIntTag(Items(d)[i].tag)
                \/ Items(d)[i].tag \in {192, 194, 195}
                \/ IsStrTag(Items(d)[i].tag) /\ IsAscii(ItemString(d, Items(d)[i]))

\* C21: a bin8/16/32 element, which decodes to Null and shows as null in
\* the text, does not shift later offsets: on canonical text, after a bin
\* element inside an array or map, the text span of every later mapping
\* covers exactly its own literal.
C21_BinKeepsOffsets ==
    (Mapped /\ canonical /\ IsPlainWithBin(data) /\ NoEntryCollapsed(data)) =>
        \A i \in 1..Len(Items(data)) :
            IsBinTag(Items(data)[i].tag) =>
                \A j \in 1..Len(mappings) :
                    mappings[j].hex_start >= Items(data)[i].he => TextSpanExact(mappings[j])

\* the call started on a str 32 or bin 32 tag whose four length bytes are
\* in the buffer
OnWordLength ==
    /\ parse_pos < Len(data)
    /\ At(data, parse_pos) \in {198, 219}
    /\ safe_array_ok(data, parse_pos + 1, 4)

DeclaredBytes == safe_array(data, parse_pos + 1, 4)

\* pos + 5 + L, as a number, exceeds the length of the buffer
DeclaredExceeds ==
    DeclaredBytes[1] >= 64 \/ parse_pos + 5 + from_be_bytes(DeclaredBytes) > Len(data)

\* C22: for str 32 and bin 32 every declared 32-bit length L is handled
\* without wrap-around at the word size of the target: when pos + 5 + L
\* exceeds the buffer length the decoder and the mapper return a truncation
\* error, and on success the new position is pos + 5 + L, inside the buffer.
C22_WordLengths ==
    (pc \in {"parsed", "built"} /\ OnWordLength) =>
        /\ DeclaredExceeds =>
              /\ parsed.st = "err"
              /\ parsed.err \in {"TruncatedString", "TruncatedBinary"}
              /\ Built => built.st = "err"
        /\ parsed.st = "ok" =>
              /\ ~DeclaredExceeds
              /\ parsed.pos = parse_pos + 5 + from_be_bytes(DeclaredBytes)
              /\ parsed.pos <= Len(data)

\* the call started on a container whose header is in the buffer and whose
\* declared children are more than the bytes that follow the header
CountExceeds ==
    /\ parse_pos < Len(data)
    /\ IsContainerTag(At(data, parse_pos))
    /\ safe_array_ok(data, parse_pos + 1, CountWidth(At(data, parse_pos)))
    /\ ChildCount(data, parse_pos) >
          Len(data) - (parse_pos + 1 + CountWidth(At(data, parse_pos)))

\* C23: parse_msgpack_value and build_mappings terminate: every successful
\* call returns an end position strictly greater than its start position
\* and at most the buffer length, and a container whose declared count
\* exceeds the elements present does not succeed.
C23_Progress ==
    (pc \in {"parsed", "built"}) =>
        /\ parsed.st = "ok" => (parsed.pos > parse_pos /\ parsed.pos <= Len(data))
        /\ (Built /\ built.st = "ok") =>
              (built.hex_pos > parse_pos /\ built.hex_pos <= Len(data))
        /\ CountExceeds => (parsed.st # "ok" /\ (Built => built.st # "ok"))

\* the mapping of a float 32 or float 64 leaf
IsFloatLeaf(m) == m.mapping_type = "Value" /\ At(data, m.hex_start) \in {202, 203}

\* the text the printer emits for the value decoded at pos
PrintedAt(pos) == ToJson(parse_msgpack_value(data, pos).value)

\* C24: for a float 32 or float 64 leaf the text length the mapper computes
\* equals the length of the text the printer emits for the decoded value:
\* integral floats of any magnitude, and non-finite floats, which the
\* decoder normalises to 0.
C24_FloatTextLength ==
    (Mapped /\ walk = "ok") =>
        \A j \in 1..Len(mappings) :
            IsFloatLeaf(mappings[j]) =>
                mappings[j].json_end - mappings[j].json_start
                    = Len(PrintedAt(mappings[j].hex_start))

\* C30: the empty range never reaches the selection handler: every mapping
\* create_position_mappings returns has a non-empty byte span (hex_start <
\* hex_end), so every byte range find_hex_range_for_json_selection returns
\* has end >= 1, byte_range_to_hex_char_range is not called with an end of
\* 0, and the character range it returns has start < end.
C30_NonEmptySpans ==
    /\ (pc \in {"mapped", "selected", "ranged"} /\ walk # "panic") =>
          \A j \in 1..Len(mappings) : mappings[j].hex_start < mappings[j].hex_end
    /\ (pc \in {"selected", "ranged"} /\ hex_range.some) => hex_range.end >= 1
    /\ (pc = "ranged" /\ hex_range.some) =>
          /\ byte_range[2] >= 1
          /\ char_range.char_start < char_range.char_end

(***************************************************************************)
(* The resolver on arbitrary mapping lists                                 *)
(***************************************************************************)
MaxCoord == 2
MaxMappings == 2

\* byte positions of the arbitrary mappings
HexPositions == {0, 1}

\* mappings with any text span and any byte span, also empty and reversed
ArbitraryMappings ==
    {PositionMapping(js, je, hs, he, "Value") :
        js \in 0..MaxCoord, je \in 0..MaxCoord, hs \in HexPositions, he \in HexPositions}

InitResolver ==
    /\ ui = Fresh
    /\ build = "wasm32_release"
    /\ data = <<>>
    /\ json_string = <<>>
    /\ canonical = FALSE
    /\ pc = "mapped"
    /\ parse_pos = 0
    /\ parsed = Err("none")
    /\ walk = "ok"
    /\ mappings \in SeqsUpTo(ArbitraryMappings, MaxMappings)
    /\ selection = <<0, 0>>
    /\ hex_range = None
    /\ byte_range = <<0, 0>>
    /\ char_range = [char_start |-> 0, char_end |-> 0]
    /\ built = NotBuilt
    /\ conv = NoConv

NextResolver ==
    \E s \in 0..MaxCoord, e \in 0..MaxCoord : FindHexRange(s, e)

SpecResolver == InitResolver /\ [][NextResolver]_vars

(***************************************************************************)
(* The converters on texts: a session starts from a text and calls a       *)
(* converter on it, then a converter on the result of the last call.       *)
(***************************************************************************)
MaxSteps == 2

\* JSON texts: every integer family at its limits, strings with escapes,
\* containers in each order, and texts the parser rejects
JsonTexts ==
    { <<110, 117, 108, 108>>,   \* "null"
      <<116, 114, 117, 101>>,   \* "true"
      <<102, 97, 108, 115, 101>>,   \* "false"
      <<48>>,   \* "0"
      <<45, 49>>,   \* "-1"
      <<49, 50, 55>>,   \* "127"
      <<49, 50, 56>>,   \* "128"
      <<50, 53, 53>>,   \* "255"
      <<50, 53, 54>>,   \* "256"
      <<54, 53, 53, 51, 53>>,   \* "65535"
      <<54, 53, 53, 51, 54>>,   \* "65536"
      <<52, 50, 57, 52, 57, 54, 55, 50, 57, 53>>,   \* "4294967295"
      <<52, 50, 57, 52, 57, 54, 55, 50, 57, 54>>,   \* "4294967296"
      <<57, 48, 48, 55, 49, 57, 57, 50, 53, 52, 55, 52, 48, 57, 57, 51>>,   \* "9007199254740993"
      <<57, 50, 50, 51, 51, 55, 50, 48, 51, 54, 56, 53, 52, 55, 55, 53, 56, 48, 55>>,   \* "9223372036854775807"
      <<57, 50, 50, 51, 51, 55, 50, 48, 51, 54, 56, 53, 52, 55, 55, 53, 56, 48, 56>>,   \* "9223372036854775808"
      <<49, 56, 52, 52, 54, 55, 52, 52, 48, 55, 51, 55, 48, 57, 53, 53, 49, 54, 49, 53>>,   \* "18446744073709551615"
      <<45, 51, 50>>,   \* "-32"
      <<45, 51, 51>>,   \* "-33"
      <<45, 49, 50, 56>>,   \* "-128"
      <<45, 49, 50, 57>>,   \* "-129"
      <<45, 51, 50, 55, 54, 56>>,   \* "-32768"
      <<45, 51, 50, 55, 54, 57>>,   \* "-32769"
      <<45, 50, 49, 52, 55, 52, 56, 51, 54, 52, 56>>,   \* "-2147483648"
      <<45, 50, 49, 52, 55, 52, 56, 51, 54, 52, 57>>,   \* "-2147483649"
      <<45, 57, 50, 50, 51, 51, 55, 50, 48, 51, 54, 56, 53, 52, 55, 55, 53, 56, 48, 56>>,   \* "-9223372036854775808"
      <<34, 34>>,   \* "\"\""
      <<34, 97, 34>>,   \* "\"a\""
      <<34, 233, 34>>,   \* "\"\u00e9\""
      <<34, 92, 110, 92, 34, 92, 92, 34>>,   \* "\"\\n\\\"\\\\\""
      <<34, 92, 117, 48, 48, 101, 57, 34>>,   \* "\"\\u00e9\""
      <<34, 92, 117, 100, 56, 51, 100, 92, 117, 100, 101, 48, 48, 34>>,   \* "\"\\ud83d\\ude00\""
      <<34, 120, 120, 120, 120, 120, 120, 120, 120, 120, 120, 120, 120, 120, 120, 120, 120, 120, 120, 120, 120, 120, 120, 120, 120, 120, 120, 120, 120, 120, 120, 120, 120, 34>>,   \* "\"xxxxxxxxxxxxxxxxxxxxxxxxxxxxxxxx\""
      <<91, 93>>,   \* "[]"
      <<91, 49, 44, 50, 93>>,   \* "[1,2]"
      <<91, 91, 93, 44, 123, 125, 93>>,   \* "[[],{}]"
      <<123, 125>>,   \* "{}"
      <<123, 34, 98, 34, 58, 49, 44, 34, 97, 34, 58, 50, 125>>,   \* "{\"b\":1,\"a\":2}"
      <<123, 34, 97, 34, 58, 49, 44, 34, 97, 34, 58, 50, 125>>,   \* "{\"a\":1,\"a\":2}"
      <<123, 34, 118, 97, 108, 117, 101, 34, 58, 32, 57, 48, 48, 55, 49, 57, 57, 50, 53, 52, 55, 52, 48, 57, 57, 51, 125>>,   \* "{\"value\": 9007199254740993}"
      <<123, 34, 107, 34, 58, 91, 110, 117, 108, 108, 44, 116, 114, 117, 101, 44, 123, 34, 120, 34, 58, 34, 121, 34, 125, 93, 125>>,   \* "{\"k\":[null,true,{\"x\":\"y\"}]}"
      <<32, 91, 32, 49, 32, 44, 10, 32, 50, 32, 93, 32>>,   \* " [ 1 ,\n 2 ] "
      <<91, 48, 44, 49, 44, 50, 44, 51, 44, 52, 44, 53, 44, 54, 44, 55, 44, 56, 44, 57, 44, 49, 48, 44, 49, 49, 44, 49, 50, 44, 49, 51, 44, 49, 52, 44, 49, 53, 93>>,   \* "[0,1,2,3,4,5,6,7,8,9,10,11,12,13,14,15]"
      <<160, 49>>,   \* "\u00a01"
      <<45, 48>>,   \* "-0"
      <<123>>,   \* "{"
      <<91, 49, 44, 93>>,   \* "[1,]"
      <<48, 49>>,   \* "01"
      <<34, 97, 98, 99>>,   \* "\"abc"
      <<110, 117, 108>>,   \* "nul"
      <<49, 32, 50>>,   \* "1 2"
      <<123, 34, 97, 34, 32, 49, 125>>,   \* "{\"a\" 1}"
      <<123, 49, 58, 50, 125>>,   \* "{1:2}"
      <<34, 92, 117, 100, 56, 51, 100, 34>>,   \* "\"\\ud83d\""
      <<>> }   \* ""

\* base64 texts: canonical strings of each padding, and strings the
\* decoder rejects
Base64Texts ==
    { <<97, 71, 86, 115, 98, 71, 56, 61>>,   \* "aGVsbG8="
      <<65, 65, 61, 61>>,   \* "AA=="
      <<65, 65, 65, 61>>,   \* "AAA="
      <<65, 65, 65, 65>>,   \* "AAAA"
      <<103, 97, 86, 111, 90, 87, 120, 115, 98, 54, 86, 51, 98, 51, 74, 115, 90, 65, 61, 61>>,   \* "gaVoZWxsb6V3b3JsZA=="
      <<47, 43, 56, 61>>,   \* "/+8="
      <<107, 119, 69, 67, 65, 119, 61, 61>>,   \* "kwECAw=="
      <<103, 81, 99, 70>>,   \* "gQcF"
      <<120, 65, 70, 104>>,   \* "xAFh"
      <<65, 66, 61, 61>>,   \* "AB=="
      <<65, 65, 61>>,   \* "AA="
      <<65>>,   \* "A"
      <<65, 65>>,   \* "AA"
      <<97, 71, 86, 115, 98, 71, 56>>,   \* "aGVsbG8"
      <<97, 71, 86, 32, 115, 98, 71, 56, 61>>,   \* "aGV sbG8="
      <<32, 97, 71, 86, 115, 98, 71, 56, 61, 32>>,   \* " aGVsbG8= "
      <<97, 71, 86, 115, 10>>,   \* "aGVs\n"
      <<97, 45, 95, 61>>,   \* "a-_="
      <<61, 61, 61, 61>> }   \* "===="

\* hex texts: digit pairs in both cases with white space, odd lengths,
\* signs and characters that are not hex digits
HexTexts ==
    { <<54, 56, 32, 54, 53, 32, 54, 67, 32, 54, 67, 32, 54, 70>>,   \* "68 65 6C 6C 6F"
      <<54, 56, 54, 53>>,   \* "6865"
      <<48, 97>>,   \* "0a"
      <<48, 65, 32, 102, 102>>,   \* "0A ff"
      <<32, 32>>,   \* "  "
      <<9, 56, 49, 10, 65, 49, 32, 54, 49, 13, 48, 53>>,   \* "\t81\nA1 61\r05"
      <<49, 12288, 50>>,   \* "1\u30002"
      <<65, 66, 67>>,   \* "ABC"
      <<71, 49>>,   \* "G1"
      <<43, 49>>,   \* "+1"
      <<45, 49>>,   \* "-1"
      <<49, 43>>,   \* "1+"
      <<43, 43>>,   \* "++"
      <<97, 233, 49>>,   \* "a\u00e91"
      <<233>>,   \* "\u00e9"
      <<233, 233>>,   \* "\u00e9\u00e9"
      <<1633, 1634>>,   \* "\u0661\u0662"
      <<8364, 49>>,   \* "\u20ac1"
      <<48, 120, 49, 70>>,   \* "0x1F"
      <<49, 32, 50, 32, 51>> }   \* "1 2 3"

\* texts shown in the hex view: digits, characters that HTML escapes and
\* characters of two and three bytes
HexCodes ==
    { <<56, 49, 32, 65, 49>>,   \* "81 A1"
      <<60, 56, 38, 49, 62>>,   \* "<8&1>"
      <<34, 39>>,   \* "\"'"
      <<233, 49>>,   \* "\u00e91"
      <<56, 233, 32, 49>>,   \* "8\u00e9 1"
      <<8364, 32, 56, 49>>,   \* "\u20ac 81"
      <<49, 12288, 50>> }   \* "1\u30002"

MaxRange == 4

ConverterTexts == JsonTexts \cup Base64Texts \cup HexTexts \cup HexCodes

InitConverter ==
    /\ ui = Fresh
    /\ build = "wasm32_release"
    /\ data = <<>>
    /\ json_string = <<>>
    /\ canonical = FALSE
    /\ pc = "convert"
    /\ NoResults
    /\ conv \in [rev : Revisions, origin : ConverterTexts, ops : {<<>>}, results : {<<>>},
                  range : {None}]

\* the text the next call is made on
CurrentText ==
    IF conv.results = <<>> THEN conv.origin ELSE conv.results[Len(conv.results)].out

\* a call can be made: the last one, if any, returned Ok
CanCall ==
    /\ pc = "convert"
    /\ Len(conv.ops) < MaxSteps
    /\ conv.results # <<>> => conv.results[Len(conv.results)].st = "ok"

Called(op, result) ==
    /\ conv' = [conv EXCEPT !.ops = Append(@, op), !.results = Append(@, result)]
    /\ UNCHANGED <<ui, build, built, data, json_string, canonical, pc, parse_pos, parsed, walk,
                   mappings, selection, hex_range, byte_range, char_range>>

JsonToMsgpack ==
    /\ CanCall
    /\ Called("json_to_msgpack", json_to_msgpack(conv.rev, CurrentText))

MsgpackToJson ==
    /\ CanCall
    /\ Called("msgpack_to_json", msgpack_to_json(conv.rev, CurrentText))

Base64ToHex ==
    /\ CanCall
    /\ Called("base64_to_hex", base64_to_hex(conv.rev, CurrentText))

HexToBase64 ==
    /\ CanCall
    /\ Called("hex_to_base64", hex_to_base64(conv.rev, CurrentText))

\* highlight_hex(&code, range) on the text of the session
HighlightHex(range) ==
    /\ pc = "convert"
    /\ conv.ops = <<>>
    /\ conv' = [conv EXCEPT !.ops = <<"highlight_hex">>,
                            !.results = <<highlight_hex(conv.origin, range)>>,
                            !.range = range]
    /\ UNCHANGED <<ui, build, built, data, json_string, canonical, pc, parse_pos, parsed, walk,
                   mappings, selection, hex_range, byte_range, char_range>>

\* the ranges given to highlight_hex: none, and every pair of offsets up to
\* one past the end of the text
Ranges(code) ==
    {None} \cup {Some(s, e) : s \in 0..Min2(StrLen(code) + 1, MaxRange),
                              e \in 0..Min2(StrLen(code) + 1, MaxRange)}

NextConverter ==
    \/ JsonToMsgpack
    \/ MsgpackToJson
    \/ Base64ToHex
    \/ HexToBase64
    \/ \E range \in Ranges(conv.origin) : HighlightHex(range)

SpecConverter == InitConverter /\ [][NextConverter]_vars

\* the session made exactly the calls ops, in this order
Made(ops) == pc = "convert" /\ conv.ops = ops

RECURSIVE HasFloat(_)
\* the tree holds a number that is not an integer
HasFloat(v) ==
    CASE v.t = "float" -> TRUE
      [] v.t = "arr" -> \E i \in 1..Len(v.a) : HasFloat(v.a[i])
      [] v.t = "obj" -> \E i \in 1..Len(v.o) : HasFloat(v.o[i].v)
      [] OTHER -> FALSE

\* the text is a JSON value built from null, booleans, 64-bit integers,
\* strings, arrays and objects
IntegerTree(t) == from_str(t).st = "ok" /\ ~HasFloat(from_str(t).value)

BigIntegerText ==
    <<123, 34, 118, 97, 108, 117, 101, 34, 58, 32, 57, 48, 48, 55, 49, 57, 57, 50, 53, 52,
      55, 52, 48, 57, 57, 51, 125>>

IsSpacedUpperHex(h, bs) ==
    /\ Len(h) = (IF bs = <<>> THEN 0 ELSE 3 * Len(bs) - 1)
    /\ \A i \in 1..Len(h) :
          IF i % 3 = 0 THEN h[i] = Ch.space ELSE h[i] \in 48..57 \cup 65..70
    /\ \A k \in 1..Len(bs) : HexVal(h[3 * k - 2]) * 16 + HexVal(h[3 * k - 1]) = bs[k]

\* C13: for every valid base64 string x, base64_to_hex(x) succeeds and
\* renders each decoded byte as two uppercase hex digits separated by
\* single spaces, and hex_to_base64 of that rendering returns x.
C13_HexBase64Duality ==
    (Made(<<"base64_to_hex", "hex_to_base64">>) /\ STANDARD_decode(conv.origin).ok) =>
        /\ conv.results[1].st = "ok"
        /\ IsSpacedUpperHex(conv.results[1].out, STANDARD_decode(conv.origin).bytes)
        /\ conv.results[2] = COk(conv.origin)

\* aGVsbG8= gives 68 65 6C 6C 6F and comes back
C13_Witness ==
    /\ Made(<<"base64_to_hex", "hex_to_base64">>)
    /\ conv.origin = <<97, 71, 86, 115, 98, 71, 56, 61>>
    /\ conv.results[1].out = <<54, 56, 32, 54, 53, 32, 54, 67, 32, 54, 67, 32, 54, 70>>
    /\ conv.results[2].st = "ok"

\* the text without its white space has an odd number of characters or a
\* character that is not a hex digit
NotHex(t) ==
    \/ Len(clean_hex(t)) % 2 = 1
    \/ \E i \in 1..Len(clean_hex(t)) : HexVal(clean_hex(t)[i]) < 0

\* C14: hex_to_base64 returns an error, and never bytes or a panic, for
\* every input that after removal of white space has odd length or holds a
\* character other than 0-9, a-f, A-F, in both revisions of the converter.
C14_HexRejected ==
    (Made(<<"hex_to_base64">>) /\ NotHex(conv.origin)) => conv.results[1].st = "err"

\* C16: highlight_hex(code, Some((s, e))) returns the escaped text with no
\* span whenever s > e or e > length of code, and otherwise escape(code[..s])
\* followed by one hex-highlight span around escape(code[s..e]) followed by
\* escape(code[e..]); highlight_hex of an empty code is empty, and with no
\* range it is escape_html(code).
C16_HighlightHex ==
    Made(<<"highlight_hex">>) =>
        /\ conv.results[1].st = "ok"
        /\ conv.results[1].out =
              (IF conv.origin = <<>> THEN <<>>
               ELSE IF ~conv.range.some THEN escape_html(conv.origin)
               ELSE IF conv.range.start > conv.range.end
                         \/ conv.range.end > StrLen(conv.origin)
               THEN escape_html(conv.origin)
               ELSE Highlighted(conv.origin, conv.range.start, conv.range.end))

(***************************************************************************)
(* The page: the signals of App and its event handlers.  The converters    *)
(* are those of src/converter.rs, which lib.rs declares as its module.     *)
(***************************************************************************)
MaxCaret == 5

\* base64 typed into the first field: empty, [1, 2] (93 01 02), [5] inside
\* white space, a string the decoder rejects, a truncated fixstr (A5 68)
Base64Edits ==
    { <<>>,   \* ""
      <<107, 119, 69, 67>>,   \* "kwEC"
      <<32, 107, 81, 85, 61, 32>>,   \* " kQU= "
      <<107>>,   \* "k"
      <<112, 87, 103, 61>> }   \* "pWg="

\* hex typed into the second field: empty, spaced and unspaced pairs, and
\* texts that are not hex
HexEdits ==
    { <<>>,   \* ""
      <<57, 51, 32, 48, 49, 32, 48, 50>>,   \* "93 01 02"
      <<57, 49, 48, 53>>,   \* "9105"
      <<122, 122>>,   \* "zz"
      <<43, 49>> }   \* "+1"

\* text typed into the JSON editor
JsonEdits ==
    { <<>>,   \* ""
      <<91, 53, 93>>,   \* "[5]"
      <<91>> }   \* "["

\* selectionStart and selectionEnd of the JSON editor
Carets == {c \in (0..MaxCaret) \X (0..MaxCaret) : c[1] <= c[2]}

InitUI ==
    /\ ui = Fresh
    /\ build = "wasm32_release"
    /\ data = <<>>
    /\ json_string = <<>>
    /\ canonical = FALSE
    /\ pc = "page"
    /\ NoResults
    /\ conv = NoConv

\* a handler runs: the page is mounted and no handler has panicked
Alive == pc = "page" /\ ~ui.crashed

\* the handler of the event ends with the signals u
Handled(event, u) ==
    /\ ui' = [u EXCEPT !.event = event]
    /\ UNCHANGED <<build, conv, built, data, json_string, canonical, pc, parse_pos, parsed,
                   walk, mappings, selection, hex_range, byte_range, char_range>>

\* handle_base64_change, hex the result of base64_to_hex(value.trim())
Base64Changed(u, value, hex) ==
    IF trim(value) = <<>> THEN [u EXCEPT !.msgpack_base64 = value, !.msgpack_hex = <<>>]
    ELSE IF hex.st = "ok"
    THEN [u EXCEPT !.msgpack_base64 = value, !.msgpack_hex = hex.out, !.error = ""]
    ELSE [u EXCEPT !.msgpack_base64 = value]

handle_base64_change(value) ==
    /\ Alive
    /\ Handled("base64", Base64Changed(ui, value, base64_to_hex("src", trim(value))))

\* variant: a valid edit of the hex field leaves the base64 field alone
HexChangedAlone(u, value, base64) ==
    IF trim(value) = <<>> THEN [u EXCEPT !.msgpack_hex = value, !.msgpack_base64 = <<>>]
    ELSE IF base64.st = "ok" THEN [u EXCEPT !.msgpack_hex = value, !.error = ""]
    ELSE [u EXCEPT !.msgpack_hex = value]

\* handle_hex_change, base64 the result of hex_to_base64(value.trim()); a
\* panic of the converter leaves the signals as they were set before it
HexChanged(u, value, base64) ==
    IF trim(value) = <<>> THEN [u EXCEPT !.msgpack_hex = value, !.msgpack_base64 = <<>>]
    ELSE IF base64.st = "ok"
    THEN [u EXCEPT !.msgpack_hex = value, !.msgpack_base64 = base64.out, !.error = ""]
    ELSE IF base64.st = "panic" THEN [u EXCEPT !.msgpack_hex = value, !.crashed = TRUE]
    ELSE [u EXCEPT !.msgpack_hex = value]

handle_hex_change(value) ==
    /\ Alive
    /\ Handled("hex", HexChanged(ui, value, hex_to_base64("src", trim(value))))

\* on_change of the JSON editor: set_json_input.set(value)
set_json_input(value) ==
    /\ Alive
    /\ Handled("json", [ui EXCEPT !.json_input = value])

\* variant: a failed conversion empties the JSON editor
MsgpackToJsonClearing(u, r) ==
    IF r.st = "ok" THEN [u EXCEPT !.error = "", !.json_input = r.out]
    ELSE [u EXCEPT !.error = r.out, !.json_input = <<>>]

\* handle_msgpack_to_json, r the result of msgpack_to_json(base64.trim())
MsgpackToJsonClicked(u, r) ==
    IF r.st = "ok" THEN [u EXCEPT !.error = "", !.json_input = r.out]
    ELSE [u EXCEPT !.error = r.out]

\* the To JSON button, disabled while the base64 field is blank
handle_msgpack_to_json ==
    /\ Alive
    /\ trim(ui.msgpack_base64) # <<>>
    /\ Handled("to_json",
               MsgpackToJsonClicked(ui, msgpack_to_json("src", trim(ui.msgpack_base64))))

\* the hex field after To MsgPack: set when base64_to_hex(&msgpack) is Ok
HexShown(u, hex) == IF hex.st = "ok" THEN [u EXCEPT !.msgpack_hex = hex.out] ELSE u

\* handle_json_to_msgpack, r the result of json_to_msgpack(json.trim())
JsonToMsgpackClicked(u, r) ==
    IF r.st = "ok"
    THEN HexShown([u EXCEPT !.error = "", !.msgpack_base64 = r.out], base64_to_hex("src", r.out))
    ELSE [u EXCEPT !.error = r.out]

\* the To MsgPack button, disabled while the JSON editor is blank; the texts
\* typed hold no float
handle_json_to_msgpack ==
    /\ Alive
    /\ trim(ui.json_input) # <<>>
    /\ json_to_msgpack("src", trim(ui.json_input)).st # "f64"
    /\ Handled("to_msgpack",
               JsonToMsgpackClicked(ui, json_to_msgpack("src", trim(ui.json_input))))

\* clear_all
clear_all ==
    /\ Alive
    /\ Handled("clear", Fresh)

\* Some(char_range) for the byte range the resolver found
HighlightOf(r) ==
    IF ~r.some THEN [crashed |-> FALSE, range |-> None]
    ELSE [crashed |-> FALSE,
          range |-> Some(byte_range_to_hex_char_range(r.start, r.end).char_start,
                         byte_range_to_hex_char_range(r.start, r.end).char_end)]

\* the selection is resolved on the mappings; a panic of the mapper ends
\* the handler
RangeOfMappings(m, sel_start, sel_end) ==
    IF m.panicked THEN [crashed |-> TRUE, range |-> None]
    ELSE HighlightOf(find_hex_range_for_json_selection(m.mappings, sel_start, sel_end))

\* d is the result of STANDARD.decode(base64.trim())
RangeOfDecoded(d, json, sel_start, sel_end) ==
    IF ~d.ok THEN [crashed |-> FALSE, range |-> None]
    ELSE RangeOfMappings(create_position_mappings(d.bytes, json), sel_start, sel_end)

\* the value handle_json_selection_change gives to set_hex_highlight_range
HighlightFor(base64, json, sel_start, sel_end) ==
    IF base64 = <<>> \/ json = <<>> \/ sel_start = sel_end
    THEN [crashed |-> FALSE, range |-> None]
    ELSE RangeOfDecoded(STANDARD_decode(trim(base64)), json, sel_start, sel_end)

SelectionChanged(u, sel_start, sel_end, h) ==
    IF h.crashed THEN [u EXCEPT !.selection = Some(sel_start, sel_end), !.crashed = TRUE]
    ELSE [u EXCEPT !.selection = Some(sel_start, sel_end), !.hex_highlight_range = h.range]

\* handle_json_selection_change(sel_start, sel_end)
handle_json_selection_change(sel_start, sel_end) ==
    /\ Alive
    /\ Handled("select",
               SelectionChanged(ui, sel_start, sel_end,
                   HighlightFor(ui.msgpack_base64, ui.json_input, sel_start, sel_end)))

NextUI ==
    \/ \E value \in Base64Edits : handle_base64_change(value)
    \/ \E value \in HexEdits : handle_hex_change(value)
    \/ \E value \in JsonEdits : set_json_input(value)
    \/ handle_msgpack_to_json
    \/ handle_json_to_msgpack
    \/ clear_all
    \/ \E sel \in Carets : handle_json_selection_change(sel[1], sel[2])

SpecUI == InitUI /\ [][NextUI]_vars

(***************************************************************************)
(* Properties of the page                                                  *)
(***************************************************************************)
ToJsonResult == msgpack_to_json("src", ui.msgpack_base64)
ToMsgpackResult == json_to_msgpack("src", ui.json_input)

SameBuffer == ui'.msgpack_base64 = ui.msgpack_base64 /\ ui'.msgpack_hex = ui.msgpack_hex

\* the step is the handler of the event: every handler records its event
StepOf(event) == ui'.event = event

\* C25: To JSON never changes the base64 or hex field and ends in one of
\* two states: the conversion succeeded, json_input holds the result and
\* error is empty, or it failed, error holds the message of the converter
\* and json_input keeps its value.  To MsgPack, when it fails, leaves the
\* base64 and hex fields as they were and shows the message.
C25_ConvertButtons ==
    [][ /\ StepOf("to_json") =>
              /\ SameBuffer
              /\ \/ /\ ToJsonResult.st = "ok"
                    /\ ui'.json_input = ToJsonResult.out
                    /\ ui'.error = ""
                 \/ /\ ToJsonResult.st = "err"
                    /\ ui'.error = ToJsonResult.out
                    /\ ui'.json_input = ui.json_input
        /\ (StepOf("to_msgpack") /\ ToMsgpackResult.st # "ok") =>
              /\ SameBuffer
              /\ ui'.error = ToMsgpackResult.out
              /\ ui'.json_input = ui.json_input ]_vars

\* To JSON failed on a base64 field edited after an earlier conversion: the
\* message is shown, the JSON text and the hex text are still there
C25_Witness ==
    /\ ui.event = "to_json"
    /\ ui.error # ""
    /\ ui.json_input # <<>>
    /\ ui.msgpack_hex # <<>>
    /\ ~ui.crashed

\* the trimmed text is accepted by the base64 decoder
ValidBase64(text) == STANDARD_decode(trim(text)).ok

\* the text is hex digits in pairs, white space apart
ValidHex(text) ==
    /\ Len(clean_hex(text)) % 2 = 0
    /\ \A i \in 1..Len(clean_hex(text)) :
          clean_hex(text)[i] < 128 /\ HexVal(clean_hex(text)[i]) >= 0

\* the bytes a valid hex text denotes
HexBytes(text) == HexPairs(clean_hex(text), <<>>)

\* the signals an edit of one of the two buffer fields must leave alone
RestKept ==
    /\ ui'.json_input = ui.json_input
    /\ ui'.error = ui.error
    /\ ui'.hex_highlight_range = ui.hex_highlight_range

\* C26: an edit of the base64 field to a non-empty value that is not valid
\* base64 changes only that field: hex, json_input, error and the highlight
\* range keep their values; an edit of the hex field to text that is not
\* valid hex changes only the hex field.  A valid edit sets the other field
\* to the conversion of the trimmed input and empties error.
C26_FieldEdits ==
    [][ /\ (StepOf("base64") /\ trim(ui'.msgpack_base64) # <<>>) =>
              IF ValidBase64(ui'.msgpack_base64)
              THEN /\ ui'.msgpack_hex
                        = bytes_to_hex(STANDARD_decode(trim(ui'.msgpack_base64)).bytes)
                   /\ ui'.error = ""
              ELSE ui'.msgpack_hex = ui.msgpack_hex /\ RestKept
        /\ (StepOf("hex") /\ trim(ui'.msgpack_hex) # <<>>) =>
              IF ValidHex(ui'.msgpack_hex)
              THEN /\ ui'.msgpack_base64 = STANDARD_encode(HexBytes(ui'.msgpack_hex))
                   /\ ui'.error = ""
              ELSE ui'.msgpack_base64 = ui.msgpack_base64 /\ RestKept ]_vars

\* C27: after any sequence of events (edit base64, edit hex, edit JSON,
\* To JSON, To MsgPack, Clear), whenever the trimmed base64 field is valid
\* base64 and the hex field is valid hex, both denote the same bytes.
C27_SameBytes ==
    (pc = "page" /\ ValidBase64(ui.msgpack_base64) /\ ValidHex(ui.msgpack_hex)) =>
        STANDARD_decode(trim(ui.msgpack_base64)).bytes = HexBytes(ui.msgpack_hex)

\* unspaced hex was typed over a buffer that came from the JSON editor
C27_Witness ==
    /\ ui.event = "hex"
    /\ ui.json_input # <<>>
    /\ ValidHex(ui.msgpack_hex)
    /\ ValidBase64(ui.msgpack_base64)
    /\ HexBytes(ui.msgpack_hex) # <<>>
    /\ ui.msgpack_hex # bytes_to_hex(HexBytes(ui.msgpack_hex))

\* the range the signals and the last reported selection produce now
CurrentHighlight ==
    HighlightFor(ui.msgpack_base64, ui.json_input, ui.selection.start, ui.selection.end)

BufferBytes == STANDARD_decode(trim(ui.msgpack_base64)).bytes

\* the byte span the resolver finds for the last reported selection
ResolvedSpan ==
    find_hex_range_for_json_selection(
        create_position_mappings(BufferBytes, ui.json_input).mappings,
        ui.selection.start, ui.selection.end)

====
